---- MODULE Spec2Model ----
(***************************************************************************)
(* MoveIQ analysis core: the AQI normalizer (analysis/aqi_normalizer.py)   *)
(* and the life-cost calculator (analysis/life_cost_calculator.py).        *)
(*                                                                         *)
(* Numbers.  The Python code computes on floats; the model computes on     *)
(* exact fixed-point integers, each quantity in a stated unit:             *)
(*   AQI values                     1/10 index point  (round(x, 1))        *)
(*   PM2.5 concentration            1/100 ug/m3                            *)
(*   PM10 concentration             1/10 ug/m3                             *)
(*   NO2, SO2 after conversion      1/1000 ppb  (reading in whole ug/m3)   *)
(*   CO after conversion            1/10000 ppm (reading in 100 ug/m3)     *)
(*   O3 after conversion            1/1000000 ppm (reading in whole ug/m3) *)
(*   cost-of-living index, its delta 1/10 index point                      *)
(*   life expectancy, its base delta 1/100 year                            *)
(*   health-adjusted delta          1/1000 year       (round(x, 3))        *)
(*   cost per life year             1/100             (round(x, 2))        *)
(*   recommendation score           1/10 point        (round(x, 1))        *)
(* round(x, n) is modelled by RoundHE (round half to even on the exact     *)
(* quotient), which is what Python's round does on the value it is given;  *)
(* the model differs from the float computation only where the exact       *)
(* result is a tie that the binary float does not represent exactly.       *)
(* Optional[float] is modelled as a sequence: None is <<>> and the float   *)
(* x is <<x>>.  A dict is a function whose DOMAIN is the set of its keys.  *)
(***************************************************************************)
EXTENDS Integers, Sequences, FiniteSets, TLC

VARIABLES
    aqi_pc,           \* "ready" | "standardized" | "looked_up"
    pollutant_data,   \* the PollutantReading passed to calculate_standardized_aqi
    std_aqi,          \* what calculate_standardized_aqi returned
    lookup_table,     \* the pollutant whose table _calculate_pollutant_aqi is given
    concentration,    \* the concentration _calculate_pollutant_aqi is given
    pollutant_aqi,    \* what _calculate_pollutant_aqi returned
    calc_pc,          \* "idle" | "request" | "compared" | "reversed" | "deltas" | "scored" | "ratio"
    cities_analysis,  \* the rows of the cities_analysis view, by city key
    queries_ok,       \* whether the origin's and the destination's query ran (last call)
    origin_city,      \* the keys calculate_comparison is given
    destination_city,
    comparison,       \* outcome of calculate_comparison(origin_city, destination_city)
    reverse_comparison, \* outcome of calculate_comparison(destination_city, origin_city)
    cost_delta,       \* the deltas given to the scoring helpers directly
    life_exp_delta,
    aqi_delta,
    recommendation_score, \* what _calculate_recommendation_score returned
    cost_per_life_year,   \* what _calculate_cost_per_life_year returned
    health_pc,        \* "idle" | "ready" | "adjusted"
    origin_record,    \* the dicts _calculate_health_adjusted_life_expectancy_delta is given
    destination_record,
    health_delta,     \* outcome of _calculate_health_adjusted_life_expectancy_delta
    scale_pc,         \* "idle" | "ready" | "normalized" | "categorized" | "impact"
    aqi_value,        \* the AQI given to the normalizer's scale functions
    source_standard,  \* the standard name given to normalize_existing_aqi
    normalized_aqi,   \* what normalize_existing_aqi returned
    aqi_category,     \* what get_aqi_category returned
    health_impact_score, \* what calculate_health_impact_score returned
    estimate_pc,      \* "idle" | "ready" | "estimated"
    estimate_aqi,     \* the standardized AQI given to _aqi_to_pm25_estimate
    pm25_estimate,    \* what _aqi_to_pm25_estimate returned
    estimate_index,   \* the PM2.5 table's index for that estimate
    view_rows,        \* the stored rows the concurrent requests read
    request_keys,     \* per request: the origin and destination keys it was given
    request_pc,       \* per request: "idle" | "start" | "origin" | "destination" | "done"
    origin_local,     \* per request: its local origin_data
    destination_local, \* per request: its local destination_data
    response,         \* per request: the outcome of its calculate_comparison
    pair_pc,          \* "idle" | "ready" | "first" | "both"
    pair_call,        \* the function called twice
    first_args,       \* the arguments of its first call
    second_args,      \* the arguments of its second call
    first_result,     \* what the first call returned
    second_result,    \* what the second call returned
    etl_pc,             \* "idle" | "ready" | "deleted" | "returned"
    etl_table,          \* the table refreshed: "air_quality" | "cost_of_living"
    air_quality,        \* the city's row of table air_quality, None without one
    cost_of_living,     \* the city's row of table cost_of_living, None without one
    previous_row,       \* the refreshed table's row when the refresh was called
    new_row,            \* the row the refresh is to store
    insert_outcome,     \* "pending" | "ok" | "failed"
    reader_pc,          \* "idle" | "waiting" | "read"
    observed_row,       \* the row of cities_analysis a concurrent reader got
    observed_data       \* what its _get_city_data returned

aqiVars == <<aqi_pc, pollutant_data, std_aqi, lookup_table, concentration, pollutant_aqi>>
calcVars == <<calc_pc, cities_analysis, queries_ok, origin_city, destination_city,
              comparison, reverse_comparison, cost_delta, life_exp_delta, aqi_delta,
              recommendation_score, cost_per_life_year>>
healthVars == <<health_pc, origin_record, destination_record, health_delta>>
scaleVars == <<scale_pc, aqi_value, source_standard, normalized_aqi, aqi_category,
               health_impact_score>>
estimateVars == <<estimate_pc, estimate_aqi, pm25_estimate, estimate_index>>
concurrentVars == <<view_rows, request_keys, request_pc, origin_local, destination_local,
                    response>>
pairVars == <<pair_pc, pair_call, first_args, second_args, first_result, second_result>>
etlVars ==
    <<etl_pc, etl_table, air_quality, cost_of_living, previous_row, new_row,
      insert_outcome, reader_pc, observed_row, observed_data>>
vars == <<aqiVars, calcVars, healthVars, scaleVars, estimateVars, concurrentVars, pairVars, etlVars>>

----------------------------------------------------------------------------
(* Python values *)

None == <<>>
Some(x) == <<x>>
Val(o) == o[1]

Abs(x) == IF x < 0 THEN -x ELSE x
Min2(a, b) == IF a <= b THEN a ELSE b
Max2(a, b) == IF a >= b THEN a ELSE b
SetMax(S) == CHOOSE x \in S : \A y \in S : y <= x

\* round(n / d, k) for d > 0, on the exact quotient, in units of the k-th decimal.
RoundHEPos(n, d) ==
    LET q == n \div d
        r == n % d
    IN  IF 2 * r < d THEN q
        ELSE IF 2 * r > d THEN q + 1
        ELSE IF q % 2 = 0 THEN q ELSE q + 1

RoundHE(n, d) == IF d > 0 THEN RoundHEPos(n, d) ELSE RoundHEPos(-n, -d)

----------------------------------------------------------------------------
(* AQINormalizer.__init__ : the EPA breakpoint tables, rows                *)
(* (bp_low, bp_high, aqi_low, aqi_high), concentrations in the unit above. *)

pm25_breakpoints ==
    << <<0, 1200, 0, 50>>,
       <<1210, 3540, 51, 100>>,
       <<3550, 5540, 101, 150>>,
       <<5550, 15040, 151, 200>>,
       <<15050, 25040, 201, 300>>,
       <<25050, 35040, 301, 400>>,
       <<35050, 50040, 401, 500>> >>

pm10_breakpoints ==
    << <<0, 540, 0, 50>>,
       <<550, 1540, 51, 100>>,
       <<1550, 2540, 101, 150>>,
       <<2550, 3540, 151, 200>>,
       <<3550, 4240, 201, 300>>,
       <<4250, 5040, 301, 400>>,
       <<5050, 6040, 401, 500>> >>

no2_breakpoints ==
    << <<0, 53000, 0, 50>>,
       <<54000, 100000, 51, 100>>,
       <<101000, 360000, 101, 150>>,
       <<361000, 649000, 151, 200>>,
       <<650000, 1249000, 201, 300>>,
       <<1250000, 1649000, 301, 400>>,
       <<1650000, 2049000, 401, 500>> >>

so2_breakpoints ==
    << <<0, 35000, 0, 50>>,
       <<36000, 75000, 51, 100>>,
       <<76000, 185000, 101, 150>>,
       <<186000, 304000, 151, 200>>,
       <<305000, 604000, 201, 300>>,
       <<605000, 804000, 301, 400>>,
       <<805000, 1004000, 401, 500>> >>

co_breakpoints ==
    << <<0, 44000, 0, 50>>,
       <<45000, 94000, 51, 100>>,
       <<95000, 124000, 101, 150>>,
       <<125000, 154000, 151, 200>>,
       <<155000, 304000, 201, 300>>,
       <<305000, 404000, 301, 400>>,
       <<405000, 504000, 401, 500>> >>

o3_breakpoints ==
    << <<0, 54000, 0, 50>>,
       <<55000, 70000, 51, 100>>,
       <<71000, 85000, 101, 150>>,
       <<86000, 105000, 151, 200>>,
       <<106000, 200000, 201, 300>> >>

Pollutants == {"pm25", "pm10", "no2", "so2", "co", "o3"}

\* self.<p>_breakpoints
Breakpoints(p) ==
    CASE p = "pm25" -> pm25_breakpoints
      [] p = "pm10" -> pm10_breakpoints
      [] p = "no2"  -> no2_breakpoints
      [] p = "so2"  -> so2_breakpoints
      [] p = "co"   -> co_breakpoints
      [] p = "o3"   -> o3_breakpoints

----------------------------------------------------------------------------
(* AQINormalizer._calculate_pollutant_aqi *)

\* mutant of EpaFormula: the slope taken to the next whole index (aqi_high + 1)
EpaFormula_next_index(c, row) ==
    RoundHE(10 * (row[4] + 1 - row[3]) * (c - row[1]), row[2] - row[1]) + 10 * row[3]

\* ((aqi_high - aqi_low) / (bp_high - bp_low)) * (concentration - bp_low) + aqi_low,
\* rounded to one decimal: in tenths of an index point.  aqi_low is a whole
\* number, so it is added after the rounding (the rounding of x + k is the
\* rounding of x, plus k, for a whole k; 10 * aqi_low is even, so ties agree).
\* mutant of EpaFormula: the value cut to one decimal instead of rounded
EpaFormula_truncated(c, row) ==
    (10 * (row[4] - row[3]) * (c - row[1])) \div (row[2] - row[1]) + 10 * row[3]

EpaFormula(c, row) ==
    RoundHE(10 * (row[4] - row[3]) * (c - row[1]), row[2] - row[1]) + 10 * row[3]

\* mutant of InRange: the lower bound excluded (bp_low < c)
InRange_exclusive_low(c, row) == row[1] < c /\ c <= row[2]

\* for bp_low, bp_high, aqi_low, aqi_high in breakpoints: if bp_low <= c <= bp_high
InRange(c, row) == row[1] <= c /\ c <= row[2]

\* mutant of calculate_pollutant_aqi: the extrapolation above the table not capped
calculate_pollutant_aqi_uncapped(c, breakpoints) ==
    IF c < 0 THEN None
    ELSE IF \E i \in 1..Len(breakpoints) : InRange(c, breakpoints[i])
    THEN LET i == CHOOSE k \in 1..Len(breakpoints) :
                      /\ InRange(c, breakpoints[k])
                      /\ \A j \in 1..(k - 1) : ~InRange(c, breakpoints[j])
         IN  Some(EpaFormula(c, breakpoints[i]))
    ELSE IF c > breakpoints[Len(breakpoints)][2]
    THEN Some(EpaFormula(c, breakpoints[Len(breakpoints)]))
    ELSE None

calculate_pollutant_aqi(c, breakpoints) ==
    IF c < 0 THEN None
    ELSE IF \E i \in 1..Len(breakpoints) : InRange(c, breakpoints[i])
    THEN LET i == CHOOSE k \in 1..Len(breakpoints) :
                      /\ InRange(c, breakpoints[k])
                      /\ \A j \in 1..(k - 1) : ~InRange(c, breakpoints[j])
         IN  Some(EpaFormula(c, breakpoints[i]))
    ELSE IF c > breakpoints[Len(breakpoints)][2]
    THEN Some(Min2(EpaFormula(c, breakpoints[Len(breakpoints)]), 5000))
    ELSE None

----------------------------------------------------------------------------
(* AQINormalizer.calculate_standardized_aqi *)

\* the unit conversion applied to a reading before the lookup
\* (NO2 * 0.532, SO2 * 0.382, CO * 0.000873, O3 * 0.000512; PM as is)
Converted(p, v) ==
    CASE p = "pm25" -> v
      [] p = "pm10" -> v
      [] p = "no2"  -> v * 532
      [] p = "so2"  -> v * 382
      [] p = "co"   -> v * 873
      [] p = "o3"   -> v * 512

\* if '<p>' in pollutant_data and pollutant_data['<p>'] is not None
Available(data, p) == p \in DOMAIN data /\ data[p] # None

\* a value of a reading that is present and is not a number (the string 'n/a')
NonNumeric == <<"str", "n/a">>

\* the value is a number
IsNumeric(o) == Len(o) = 1

\* the pollutants whose value is multiplied by a conversion factor in
\* calculate_standardized_aqi itself, before the lookup is called
ConvertedPollutants == {"no2", "so2", "co", "o3"}

\* the multiplication of a value that is not a number raises TypeError in the
\* body of calculate_standardized_aqi, outside _calculate_pollutant_aqi
ConversionRaises(data) ==
    \E p \in ConvertedPollutants : Available(data, p) /\ ~IsNumeric(data[p])

\* the AQI computed for pollutant p of the reading.  A PM value that is not a
\* number reaches _calculate_pollutant_aqi, where 'concentration < 0' raises
\* TypeError and the except clause of that function returns None.
IndividualAqi(data, p) ==
    IF ~IsNumeric(data[p]) THEN None
    ELSE calculate_pollutant_aqi(Converted(p, Val(data[p])), Breakpoints(p))

\* individual_aqis, as the set of its elements
individual_aqis(data) ==
    { Val(IndividualAqi(data, p)) :
        p \in { q \in Pollutants : Available(data, q) /\ IndividualAqi(data, q) # None } }

\* mutant of calculate_standardized_aqi: the individual AQIs averaged
calculate_standardized_aqi_average(data) ==
    IF individual_aqis(data) = {} THEN None
    ELSE LET RECURSIVE Sum(_)
             Sum(S) == IF S = {} THEN 0
                       ELSE LET x == CHOOSE y \in S : TRUE IN x + Sum(S \ {x})
         IN  Some(Sum(individual_aqis(data)) \div Cardinality(individual_aqis(data)))

\* mutant of calculate_standardized_aqi: a pollutant without a value voids the reading
calculate_standardized_aqi_all_or_nothing(data) ==
    IF \/ individual_aqis(data) = {}
       \/ \E p \in Pollutants : Available(data, p) /\ IndividualAqi(data, p) = None
    THEN None
    ELSE Some(SetMax(individual_aqis(data)))

\* try: ... except Exception: return None around the whole body; then
\* if not individual_aqis: return None; return max(individual_aqis)
calculate_standardized_aqi(data) ==
    IF ConversionRaises(data) THEN None
    ELSE IF individual_aqis(data) = {} THEN None
    ELSE Some(SetMax(individual_aqis(data)))

----------------------------------------------------------------------------
(* AQINormalizer.normalize_existing_aqi: the AQI given in 1/10 index point,   *)
(* the result in 1/100 (the slopes have one decimal).  The except clause of  *)
(* the method is reached only by an aqi_value that float() rejects or a      *)
(* source_standard without lower(); the calls modelled pass a number and a   *)
(* string.                                                                   *)

\* str.lower() on the standard names the calls pass
Lower(name) ==
    CASE name = "EPA" -> "epa"
      [] name = "US" -> "us"
      [] name = "Us" -> "us"
      [] name = "China" -> "china"
      [] name = "CN" -> "cn"
      [] name = "INDIA" -> "india"
      [] name = "EU" -> "eu"
      [] name = "European" -> "european"
      [] name = "WHO" -> "who"
      [] OTHER -> name

\* float(aqi_value)
Float(value) == value * 10

convert_china_aqi_to_epa(value) ==
    IF value <= 500 THEN value * 10
    ELSE IF value <= 1000 THEN 5000 + (value - 500) * 14
    ELSE IF value <= 2000 THEN 10000 + (value - 1000) * 10
    ELSE Min2(20000 + (value - 2000) * 8, 50000)

convert_india_aqi_to_epa(value) ==
    IF value <= 500 THEN value * 10
    ELSE IF value <= 1000 THEN value * 10
    ELSE IF value <= 2000 THEN 10000 + (value - 1000) * 9
    ELSE Min2(18000 + (value - 2000) * 7, 50000)

convert_eu_aqi_to_epa(value) ==
    IF value <= 500 THEN value * 12
    ELSE IF value <= 1000 THEN 5000 + (value - 500) * 15
    ELSE Min2(12500 + (value - 1000) * 10, 50000)

\* mutant of normalize_existing_aqi: an unknown standard gives None
normalize_existing_aqi_rejecting_unknown(value, standard) ==
    LET source_standard_lower == Lower(standard) IN
    IF source_standard_lower \in {"epa", "us"} THEN Some(Float(value))
    ELSE IF source_standard_lower \in {"china", "cn"} THEN Some(convert_china_aqi_to_epa(value))
    ELSE IF source_standard_lower = "india" THEN Some(convert_india_aqi_to_epa(value))
    ELSE IF source_standard_lower \in {"eu", "european"} THEN Some(convert_eu_aqi_to_epa(value))
    ELSE None

\* mutant of normalize_existing_aqi: an unknown standard read as China's
normalize_existing_aqi_unknown_as_china(value, standard) ==
    LET source_standard_lower == Lower(standard) IN
    IF source_standard_lower \in {"epa", "us"} THEN Some(Float(value))
    ELSE IF source_standard_lower = "india" THEN Some(convert_india_aqi_to_epa(value))
    ELSE IF source_standard_lower \in {"eu", "european"} THEN Some(convert_eu_aqi_to_epa(value))
    ELSE Some(convert_china_aqi_to_epa(value))

normalize_existing_aqi(value, standard) ==
    LET source_standard_lower == Lower(standard) IN
    IF source_standard_lower \in {"epa", "us"} THEN Some(Float(value))
    ELSE IF source_standard_lower \in {"china", "cn"} THEN Some(convert_china_aqi_to_epa(value))
    ELSE IF source_standard_lower = "india" THEN Some(convert_india_aqi_to_epa(value))
    ELSE IF source_standard_lower \in {"eu", "european"} THEN Some(convert_eu_aqi_to_epa(value))
    ELSE Some(Float(value))

----------------------------------------------------------------------------
(* AQINormalizer.get_aqi_category: category and color of the returned dict *)

Category(category, color) == [category |-> category, color |-> color]

\* mutant of get_aqi_category: the upper bound of each band excluded
get_aqi_category_exclusive(value) ==
    IF value < 500 THEN Category("Good", "green")
    ELSE IF value < 1000 THEN Category("Moderate", "yellow")
    ELSE IF value < 1500 THEN Category("Unhealthy for Sensitive Groups", "orange")
    ELSE IF value < 2000 THEN Category("Unhealthy", "red")
    ELSE IF value < 3000 THEN Category("Very Unhealthy", "purple")
    ELSE Category("Hazardous", "maroon")

get_aqi_category(value) ==
    IF value <= 500 THEN Category("Good", "green")
    ELSE IF value <= 1000 THEN Category("Moderate", "yellow")
    ELSE IF value <= 1500 THEN Category("Unhealthy for Sensitive Groups", "orange")
    ELSE IF value <= 2000 THEN Category("Unhealthy", "red")
    ELSE IF value <= 3000 THEN Category("Very Unhealthy", "purple")
    ELSE Category("Hazardous", "maroon")

----------------------------------------------------------------------------
(* AQINormalizer.calculate_health_impact_score, in 1/100 point.  The bare    *)
(* except (return 50) is reached only by a value that cannot be compared.    *)

\* mutant of calculate_health_impact_score: the last segment not clamped
calculate_health_impact_score_unclamped(value) ==
    IF value <= 500 THEN 1000
    ELSE IF value <= 1000 THEN 1000 + (value - 500) * 6
    ELSE IF value <= 1500 THEN 4000 + (value - 1000) * 8
    ELSE IF value <= 2000 THEN 8000 + (value - 1500) * 4
    ELSE 10000 + (value - 2000) * 1

calculate_health_impact_score(value) ==
    IF value <= 500 THEN 1000
    ELSE IF value <= 1000 THEN 1000 + (value - 500) * 6
    ELSE IF value <= 1500 THEN 4000 + (value - 1000) * 8
    ELSE IF value <= 2000 THEN 8000 + (value - 1500) * 4
    ELSE Min2(10000, 10000 + (value - 2000) * 1)

----------------------------------------------------------------------------
(* LifeCostCalculator.__init__ *)

\* self.PM25_LIFE_IMPACT_COEFFICIENT = 0.098 years per ug/m3, in 1/1000
PM25_LIFE_IMPACT_COEFFICIENT == 98

\* the attributes __init__ sets on the instance
InstanceAttributes ==
    {"db_manager", "PM25_LIFE_IMPACT_COEFFICIENT", "TYPICAL_REMAINING_LIFESPAN",
     "CONFIDENCE_INTERVALS", "VALUE_THRESHOLDS", "BASELINE_RISK_ADJUSTMENT"}

----------------------------------------------------------------------------
(* LifeCostCalculator._get_city_data *)

\* float(row[field] or default): NULL and 0 both give the default
OrDefault(v, default) == IF v = None \/ Val(v) = 0 THEN default ELSE Val(v)

\* mutant of get_city_data: a city without a row is given the default values
get_city_data_defaulting(rows, query_ok, key) ==
    IF query_ok /\ key \in DOMAIN rows
    THEN Some([standardized_aqi     |-> OrDefault(rows[key].standardized_aqi, 0),
               cost_of_living_index |-> OrDefault(rows[key].cost_of_living_index, 1000),
               life_expectancy      |-> OrDefault(rows[key].life_expectancy, 7500),
               pm25_concentration   |-> OrDefault(rows[key].pm25_concentration, 0)])
    ELSE Some([standardized_aqi |-> 0, cost_of_living_index |-> 1000,
               life_expectancy |-> 7500, pm25_concentration |-> 0])

\* execute_query returns None when the query fails (query_ok is FALSE) and the
\* matching rows otherwise; no row, or a failure, gives None
get_city_data(rows, query_ok, key) ==
    IF query_ok /\ key \in DOMAIN rows
    THEN Some([standardized_aqi     |-> OrDefault(rows[key].standardized_aqi, 0),
               cost_of_living_index |-> OrDefault(rows[key].cost_of_living_index, 1000),
               life_expectancy      |-> OrDefault(rows[key].life_expectancy, 7500),
               pm25_concentration   |-> OrDefault(rows[key].pm25_concentration, 0)])
    ELSE None

----------------------------------------------------------------------------
(* LifeCostCalculator._get_baseline_risk_adjustment, in 1/10 *)

\* mutant of get_baseline_risk_adjustment: the upper bound of each tier excluded
get_baseline_risk_adjustment_exclusive(pm25_level) ==
    IF pm25_level < 1200 THEN 10
    ELSE IF pm25_level < 2500 THEN 9
    ELSE IF pm25_level < 5000 THEN 7
    ELSE 5

get_baseline_risk_adjustment(pm25_level) ==
    IF pm25_level <= 1200 THEN 10
    ELSE IF pm25_level <= 2500 THEN 9
    ELSE IF pm25_level <= 5000 THEN 7
    ELSE 5

(* LifeCostCalculator._aqi_to_pm25_estimate, in 1/10000 ug/m3 *)

aqi_to_pm25_estimate(aqi) ==
    IF aqi <= 500 THEN aqi * 240
    ELSE IF aqi <= 1000 THEN 120000 + (aqi - 500) * 468
    ELSE IF aqi <= 1500 THEN 354000 + (aqi - 1000) * 398
    ELSE IF aqi <= 2000 THEN 554000 + (aqi - 1500) * 1898
    ELSE 1504000 + (aqi - 2000) * 1000

(* LifeCostCalculator._estimate_life_impact_from_aqi, in 1/10000000 year.   *)
(* The method reads self.pm25_life_impact_coefficient; when the instance    *)
(* has no such attribute the read raises AttributeError and the method's    *)
(* except clause returns 0.0.                                               *)

estimate_life_impact_from_aqi(origin_aqi, dest_aqi) ==
    LET pm25_delta == aqi_to_pm25_estimate(dest_aqi) - aqi_to_pm25_estimate(origin_aqi)
    IN  IF "pm25_life_impact_coefficient" \in InstanceAttributes
        THEN (-pm25_delta) * PM25_LIFE_IMPACT_COEFFICIENT
        ELSE 0

(* LifeCostCalculator._calculate_health_adjusted_life_expectancy_delta:     *)
(* the PM2.5 life impact in 1/10000000 year, the result in 1/1000 year      *)

\* mutant of pm25_life_impact: the risk adjustment taken from the origin alone
pm25_life_impact_origin_risk(origin_data, destination_data) ==
    IF origin_data.pm25_concentration > 0 /\ destination_data.pm25_concentration > 0
    THEN (origin_data.pm25_concentration - destination_data.pm25_concentration)
            * PM25_LIFE_IMPACT_COEFFICIENT
            * get_baseline_risk_adjustment(origin_data.pm25_concentration) * 10
    ELSE estimate_life_impact_from_aqi(origin_data.standardized_aqi,
                                       destination_data.standardized_aqi)

pm25_life_impact(origin_data, destination_data) ==
    IF origin_data.pm25_concentration > 0 /\ destination_data.pm25_concentration > 0
    THEN (origin_data.pm25_concentration - destination_data.pm25_concentration)
            * PM25_LIFE_IMPACT_COEFFICIENT
            * get_baseline_risk_adjustment(Max2(origin_data.pm25_concentration,
                                                destination_data.pm25_concentration)) * 10
    ELSE estimate_life_impact_from_aqi(origin_data.standardized_aqi,
                                       destination_data.standardized_aqi)

calculate_health_adjusted_life_expectancy_delta(origin_data, destination_data) ==
    LET base_delta == destination_data.life_expectancy - origin_data.life_expectancy
        total_delta == base_delta * 100000 + pm25_life_impact(origin_data, destination_data)
    IN  RoundHE(total_delta, 10000)

----------------------------------------------------------------------------
(* LifeCostCalculator._calculate_cost_per_life_year *)

\* mutant of calculate_cost_per_life_year: the near-zero test inclusive (<= 0.01)
calculate_cost_per_life_year_inclusive(cost, life) ==
    IF Abs(life) <= 10 THEN None
    ELSE Some(RoundHE(cost * 100000, life))

\* annual_cost_impact = cost_delta * 10; round(annual_cost_impact / life_exp_delta, 2)
\* mutant of calculate_cost_per_life_year: a near-zero delta gives 0, not None
calculate_cost_per_life_year_zero(cost, life) ==
    IF Abs(life) < 10 THEN Some(0)
    ELSE Some(RoundHE(cost * 100000, life))

calculate_cost_per_life_year(cost, life) ==
    IF Abs(life) < 10 THEN None
    ELSE Some(RoundHE(cost * 100000, life))

----------------------------------------------------------------------------
(* LifeCostCalculator._calculate_recommendation_score: the running score in *)
(* 1/1000 point, the result in 1/10 point                                   *)

\* mutant of LifeTerm: a gain in life expectancy counted against the move
LifeTerm_negated(life) == IF life > 0 THEN -Min2(life * 10, 30000) ELSE -Max2(life * 10, -30000)

LifeTerm(life) == IF life > 0 THEN Min2(life * 10, 30000) ELSE Max2(life * 10, -30000)
\* mutant of CostTerm: the weights and caps of savings and increases exchanged
CostTerm_weights_swapped(cost) ==
    IF cost < 0 THEN Min2(Abs(cost) * 20, 25000) ELSE -Min2(cost * 30, 20000)

CostTerm(cost) == IF cost < 0 THEN Min2(Abs(cost) * 30, 20000) ELSE -Min2(cost * 20, 25000)
\* mutant of AirTerm: an air quality improvement lowers the score
AirTerm_improvement_penalised(aqi) ==
    IF aqi < 0 THEN -Min2(Abs(aqi) * 15, 25000) ELSE -Min2(aqi * 15, 20000)

AirTerm(aqi) == IF aqi < 0 THEN Min2(Abs(aqi) * 15, 25000) ELSE -Min2(aqi * 15, 20000)

\* mutant of calculate_recommendation_score: the final clamp left out
calculate_recommendation_score_unclamped(cost, life, aqi) ==
    RoundHE(50000 + LifeTerm(life) + CostTerm(cost) + AirTerm(aqi), 100)

calculate_recommendation_score(cost, life, aqi) ==
    LET score == 50000 + LifeTerm(life) + CostTerm(cost) + AirTerm(aqi)
    IN  Max2(0, Min2(1000, RoundHE(score, 100)))

----------------------------------------------------------------------------
(* LifeCostCalculator.calculate_comparison *)

NoOutcome == [exception |-> "", message |-> "", result |-> None]

Returned(r) == [exception |-> "", message |-> "", result |-> Some(r)]

\* raise ValueError(...) inside the try, caught by `except Exception as e` and
\* raised again as Exception(f"Failed to calculate life-cost comparison: {e}")
Raised(type, msg) == [exception |-> type, message |-> msg, result |-> None]

\* the messages of _generate_analysis_details.  A primary factor's message
\* embeds the formatted delta; the model keeps the text before the number.
HigherCostsBetterHealth == "Higher living costs but better health outcomes"
LowerCostsHealthRisks == "Lower costs but potential health risks"
HigherCostsWorseHealth == "Higher costs AND worse health outcomes"
LowerCostsBetterHealth == "Lower costs AND better health - ideal scenario"

TradeOffMessages ==
    {HigherCostsBetterHealth, LowerCostsHealthRisks, HigherCostsWorseHealth,
     LowerCostsBetterHealth}

\* analysis[key].append(message) if the condition holds
AppendIf(condition, message) == IF condition THEN <<message>> ELSE <<>>

\* mutant of generate_analysis_details: a zero delta read as a positive one
generate_analysis_details_zero_as_positive(cost, aqi, life, score) ==
    [primary_factors |-> <<>>,
     trade_offs |->
        IF cost >= 0 /\ life >= 0 THEN <<HigherCostsBetterHealth>>
        ELSE IF cost < 0 /\ life < 0 THEN <<LowerCostsHealthRisks>>
        ELSE IF cost >= 0 /\ life < 0 THEN <<HigherCostsWorseHealth>>
        ELSE <<LowerCostsBetterHealth>>,
     recommendations |-> <<>>,
     risk_factors |-> <<>>]

\* cost and aqi in 1/10 point, life in 1/1000 year, score in 1/10 point
generate_analysis_details(cost, aqi, life, score) ==
    [primary_factors |->
        AppendIf(Abs(life) > 1000,
                 IF life > 0 THEN "Significant health benefit" ELSE "Health concern")
        \o AppendIf(Abs(cost) > 200,
                    IF cost > 0 THEN "High cost increase" ELSE "Significant savings")
        \o AppendIf(Abs(aqi) > 250,
                    IF aqi > 0 THEN "Air quality concern" ELSE "Better air quality"),
     trade_offs |->
        IF cost > 0 /\ life > 0 THEN <<HigherCostsBetterHealth>>
        ELSE IF cost < 0 /\ life < 0 THEN <<LowerCostsHealthRisks>>
        ELSE IF cost > 0 /\ life < 0 THEN <<HigherCostsWorseHealth>>
        ELSE IF cost < 0 /\ life > 0 THEN <<LowerCostsBetterHealth>>
        ELSE <<>>,
     recommendations |->
        IF score >= 750
        THEN <<"Highly recommended move - strong benefits outweigh costs">>
        ELSE IF score >= 600
        THEN <<"Generally positive move - benefits likely outweigh drawbacks">>
        ELSE IF score >= 400
        THEN <<"Mixed outcomes - carefully consider personal priorities">>
        ELSE IF score >= 250
        THEN <<"Consider alternatives - significant trade-offs involved">>
        ELSE <<"Not recommended - costs and risks outweigh benefits">>,
     risk_factors |->
        AppendIf(aqi > 500, "Significant air quality deterioration")
        \o AppendIf(cost > 500, "Very high cost of living increase")
        \o AppendIf(life < -1000, "Substantial health impact concerns")]

\* the body of calculate_comparison after its two _get_city_data calls
compare_city_data(origin_opt, destination_opt, origin, destination) ==
        IF origin_opt = None \/ destination_opt = None
        THEN Raised("Exception",
                    "Failed to calculate life-cost comparison: City data not found for one or both cities")
        ELSE LET origin_data == Val(origin_opt)
                 destination_data == Val(destination_opt)
                 cost == destination_data.cost_of_living_index - origin_data.cost_of_living_index
                 aqi == destination_data.standardized_aqi - origin_data.standardized_aqi
                 base_life_exp_delta == destination_data.life_expectancy - origin_data.life_expectancy
                 health_adjusted ==
                     calculate_health_adjusted_life_expectancy_delta(origin_data, destination_data)
             IN  Returned(
                   [origin_city |-> origin,
                    destination_city |-> destination,
                    origin_aqi |-> origin_data.standardized_aqi,
                    destination_aqi |-> destination_data.standardized_aqi,
                    origin_cost |-> origin_data.cost_of_living_index,
                    destination_cost |-> destination_data.cost_of_living_index,
                    origin_life_exp |-> origin_data.life_expectancy,
                    destination_life_exp |-> destination_data.life_expectancy,
                    cost_delta |-> cost,
                    aqi_delta |-> aqi,
                    life_expectancy_delta |-> base_life_exp_delta,
                    health_adjusted_life_exp_delta |-> health_adjusted,
                    cost_per_life_year |-> calculate_cost_per_life_year(cost, health_adjusted),
                    recommendation_score |->
                        calculate_recommendation_score(cost, health_adjusted, aqi),
                    analysis_details |->
                        generate_analysis_details(
                            cost, aqi, health_adjusted,
                            calculate_recommendation_score(cost, health_adjusted, aqi))])

calculate_comparison(rows, origin_ok, dest_ok, origin, destination) ==
    compare_city_data(get_city_data(rows, origin_ok, origin),
                      get_city_data(rows, dest_ok, destination),
                      origin, destination)

----------------------------------------------------------------------------
(* LifeCostCalculator._calculate_health_adjusted_life_expectancy_delta given *)
(* any two dicts: a key may be absent, or bound to None or to a number       *)

\* dict.get(key, default)
DictGet(rec, key, default) == IF key \in DOMAIN rec THEN rec[key] ELSE Some(default)

\* destination_data['life_expectancy'] - origin_data['life_expectancy'] raises
\* KeyError for an absent key and TypeError for a None operand
BaseDeltaError(o, d) ==
    IF "life_expectancy" \notin DOMAIN d \/ "life_expectancy" \notin DOMAIN o THEN "KeyError"
    ELSE IF d["life_expectancy"] = None \/ o["life_expectancy"] = None THEN "TypeError"
    ELSE ""

\* if origin_pm25 > 0 and dest_pm25 > 0: comparing None with 0 raises
\* TypeError; the second operand is evaluated only when the first test holds
Pm25TestRaises(o, d) ==
    LET origin_pm25 == DictGet(o, "pm25_concentration", 0)
        dest_pm25 == DictGet(d, "pm25_concentration", 0)
    IN  IF origin_pm25 = None THEN TRUE
        ELSE Val(origin_pm25) > 0 /\ dest_pm25 = None

\* the test holds: both concentrations are positive numbers
Pm25BothPositive(o, d) ==
    LET origin_pm25 == DictGet(o, "pm25_concentration", 0)
        dest_pm25 == DictGet(d, "pm25_concentration", 0)
    IN  /\ origin_pm25 # None /\ Val(origin_pm25) > 0
        /\ dest_pm25 # None /\ Val(dest_pm25) > 0

\* the dict as the record of numbers the computation reads; a field left
\* unread on the path taken is given 0
NumbersOf(rec) ==
    LET Field(key) == IF key \in DOMAIN rec /\ rec[key] # None THEN Val(rec[key]) ELSE 0
    IN  [standardized_aqi   |-> Field("standardized_aqi"),
         life_expectancy    |-> Field("life_expectancy"),
         pm25_concentration |-> Field("pm25_concentration")]

\* The try block, then the except clause.  The except clause evaluates the
\* base delta again: when that subtraction is what raised, it raises again
\* and the error leaves the method.  Any other failure returns the base delta
\* (unrounded).  A None AQI on the fallback path fails inside
\* _estimate_life_impact_from_aqi, which returns 0.0.
calculate_health_adjusted_life_expectancy_delta_on_dicts(o, d) ==
    IF BaseDeltaError(o, d) # "" THEN Raised(BaseDeltaError(o, d), "life_expectancy")
    ELSE LET base_delta == Val(d["life_expectancy"]) - Val(o["life_expectancy"])
         IN  IF Pm25TestRaises(o, d) THEN Returned(base_delta * 10)
             ELSE IF /\ ~Pm25BothPositive(o, d)
                     /\ ("standardized_aqi" \notin DOMAIN o \/ "standardized_aqi" \notin DOMAIN d)
             THEN Returned(base_delta * 10)
             ELSE IF /\ ~Pm25BothPositive(o, d)
                     /\ (o["standardized_aqi"] = None \/ d["standardized_aqi"] = None)
             THEN Returned(RoundHE(base_delta * 100000, 10000))
             ELSE Returned(calculate_health_adjusted_life_expectancy_delta(NumbersOf(o),
                                                                           NumbersOf(d)))

----------------------------------------------------------------------------
(* Inputs of the normalizer *)

\* the most pollutants a drawn reading carries
MaxPresent == 3
\* concentrations drawn strictly inside each breakpoint row
InteriorPoints == 3
\* concentrations drawn above the top row, half a top-row width apart
BeyondSteps == 5

\* values a reading may carry for pollutant p, in the reading's unit:
\* None, a negative, one inside the first row, one between two rows, one in a
\* middle row, one above the table
SampleValues(p) ==
    CASE p = "pm25" -> <<None, Some(-100), Some(1200), Some(1205), Some(3540), Some(60000)>>
      [] p = "pm10" -> <<None, Some(-10), Some(540), Some(545), Some(2000), Some(7000)>>
      [] p = "no2"  -> <<None, Some(-1), Some(40), Some(100), Some(500), Some(5000)>>
      [] p = "so2"  -> <<None, Some(-1), Some(50), Some(93), Some(1000), Some(3000)>>
      [] p = "co"   -> <<None, Some(-1), Some(10), Some(51), Some(200), Some(700)>>
      [] p = "o3"   -> <<None, Some(-1), Some(50), Some(107), Some(300), Some(1000)>>

Readings ==
    UNION { { [p \in S |-> SampleValues(p)[idx[p]]] : idx \in [S -> 1..6] } :
            S \in { T \in SUBSET Pollutants : Cardinality(T) <= MaxPresent } }

\* concentrations given to the lookup for a table: every bound of every row,
\* a point between each two rows, points inside each row, points above the
\* table, and a negative one
LookupConcentrations(t) ==
    LET n == Len(t) IN
    {-1}
    \cup { t[i][1] : i \in 1..n } \cup { t[i][2] : i \in 1..n }
    \cup { (t[i][2] + t[i + 1][1]) \div 2 : i \in 1..(n - 1) }
    \cup { t[i][1] + (k * (t[i][2] - t[i][1])) \div (InteriorPoints + 1) :
             i \in 1..n, k \in 1..InteriorPoints }
    \cup { t[n][2] + (k * (t[n][2] - t[n][1])) \div 2 : k \in 1..BeyondSteps }

EmptyReading == [p \in {} |-> None]

NoRows == [k \in {} |-> None]

\* the calculator is not used
CalcIdle ==
    /\ calc_pc = "idle"
    /\ cities_analysis = NoRows
    /\ queries_ok = <<TRUE, TRUE>>
    /\ origin_city = "A"
    /\ destination_city = "B"
    /\ comparison = NoOutcome
    /\ reverse_comparison = NoOutcome
    /\ cost_delta = 0
    /\ life_exp_delta = 0
    /\ aqi_delta = 0
    /\ recommendation_score = None
    /\ cost_per_life_year = None

\* the normalizer is not used
AqiIdle ==
    /\ aqi_pc = "idle"
    /\ pollutant_data = EmptyReading
    /\ std_aqi = None
    /\ lookup_table = "pm25"
    /\ concentration = 0
    /\ pollutant_aqi = None

EmptyRecord == [k \in {} |-> None]

\* _calculate_health_adjusted_life_expectancy_delta is not called directly
HealthIdle ==
    /\ health_pc = "idle"
    /\ origin_record = EmptyRecord
    /\ destination_record = EmptyRecord
    /\ health_delta = NoOutcome

\* the normalizer's scale functions are not used
ScaleIdle ==
    /\ scale_pc = "idle"
    /\ aqi_value = 0
    /\ source_standard = "epa"
    /\ normalized_aqi = None
    /\ aqi_category = None
    /\ health_impact_score = None

\* _aqi_to_pm25_estimate is not called directly
EstimateIdle ==
    /\ estimate_pc = "idle"
    /\ estimate_aqi = 0
    /\ pm25_estimate = 0
    /\ estimate_index = None

\* the number of concurrent calculate_comparison requests
NumRequests == 2

Requests == 1..NumRequests

\* no concurrent requests are running
ConcurrentIdle ==
    /\ view_rows = NoRows
    /\ request_keys = [t \in Requests |-> <<"A", "B">>]
    /\ request_pc = [t \in Requests |-> "idle"]
    /\ origin_local = [t \in Requests |-> None]
    /\ destination_local = [t \in Requests |-> None]
    /\ response = [t \in Requests |-> NoOutcome]

\* no function is called twice for comparison
PairIdle ==
    /\ pair_pc = "idle"
    /\ pair_call = ""
    /\ first_args = <<>>
    /\ second_args = <<>>
    /\ first_result = None
    /\ second_result = None

\* no refresh of a stored row
EtlIdle ==
    /\ etl_pc = "idle"
    /\ etl_table = ""
    /\ air_quality = None
    /\ cost_of_living = None
    /\ previous_row = None
    /\ new_row = None
    /\ insert_outcome = "pending"
    /\ reader_pc = "idle"
    /\ observed_row = None
    /\ observed_data = None

InitAqi ==
    /\ CalcIdle
    /\ HealthIdle
    /\ ScaleIdle
    /\ aqi_pc = "ready"
    /\ std_aqi = None
    /\ pollutant_aqi = None
    /\ \/ /\ pollutant_data \in Readings
          /\ lookup_table = "pm25"
          /\ concentration = 0
       \/ /\ pollutant_data = EmptyReading
          /\ lookup_table \in Pollutants
          /\ concentration \in LookupConcentrations(Breakpoints(lookup_table))
    /\ EstimateIdle
    /\ ConcurrentIdle
    /\ PairIdle
    /\ EtlIdle

\* AQINormalizer.calculate_standardized_aqi(pollutant_data)
CalculateStandardizedAqi ==
    /\ aqi_pc = "ready"
    /\ std_aqi' = calculate_standardized_aqi(pollutant_data)
    /\ aqi_pc' = "standardized"
    /\ UNCHANGED <<pollutant_data, lookup_table, concentration, pollutant_aqi>>
    /\ UNCHANGED <<calcVars, healthVars, scaleVars>>
    /\ UNCHANGED estimateVars
    /\ UNCHANGED concurrentVars
    /\ UNCHANGED pairVars
    /\ UNCHANGED etlVars

\* AQINormalizer._calculate_pollutant_aqi(concentration, breakpoints)
CalculatePollutantAqi ==
    /\ aqi_pc = "ready"
    /\ pollutant_aqi' = calculate_pollutant_aqi(concentration, Breakpoints(lookup_table))
    /\ aqi_pc' = "looked_up"
    /\ UNCHANGED <<pollutant_data, lookup_table, concentration, std_aqi>>
    /\ UNCHANGED <<calcVars, healthVars, scaleVars>>
    /\ UNCHANGED estimateVars
    /\ UNCHANGED concurrentVars
    /\ UNCHANGED pairVars
    /\ UNCHANGED etlVars

NextAqi == CalculateStandardizedAqi \/ CalculatePollutantAqi

SpecAqi == InitAqi /\ [][NextAqi]_vars

\* values a malformed reading may carry for pollutant p: None, a value that is
\* not a number, one inside the first row, one in a middle row
MalformedSampleValues(p) ==
    <<None, NonNumeric, SampleValues(p)[3], SampleValues(p)[5]>>

\* readings in which at least one present value is not a number
MalformedReadings ==
    { r \in UNION { { [p \in S |-> MalformedSampleValues(p)[idx[p]]] : idx \in [S -> 1..4] } :
                    S \in { T \in SUBSET Pollutants : Cardinality(T) <= MaxPresent } } :
        \E p \in DOMAIN r : r[p] = NonNumeric }

\* the normalizer given readings with values that cannot be converted or compared
InitAqiMalformed ==
    /\ CalcIdle
    /\ HealthIdle
    /\ ScaleIdle
    /\ aqi_pc = "ready"
    /\ std_aqi = None
    /\ pollutant_aqi = None
    /\ pollutant_data \in MalformedReadings
    /\ lookup_table = "pm25"
    /\ concentration = 0
    /\ EstimateIdle
    /\ ConcurrentIdle
    /\ PairIdle
    /\ EtlIdle

SpecAqiMalformed == InitAqiMalformed /\ [][NextAqi]_vars

----------------------------------------------------------------------------
(* Inputs of the calculator *)

\* rows of cities_analysis: every column of the LEFT JOINs may be NULL (None)
CityRow(aqi, cost, life, pm25) ==
    [standardized_aqi |-> aqi, cost_of_living_index |-> cost,
     life_expectancy |-> life, pm25_concentration |-> pm25]

Pm25FieldValues == {None, Some(1008), Some(1018), Some(2600), Some(12183)}

Rows ==
    { CityRow(Some(a), Some(c), Some(l), pm) :
        a \in {420, 1850}, c \in {450, 1150}, l \in {6970, 8200}, pm \in Pm25FieldValues }
    \cup { CityRow(None, None, None, None),
           CityRow(None, Some(450), Some(6970), Some(1008)),
           CityRow(Some(420), None, Some(8200), None),
           CityRow(Some(1850), Some(1150), None, Some(2600)),
           CityRow(Some(0), Some(0), Some(0), Some(0)) }

CityKeys == {"A", "B"}

Databases == UNION { [S -> Rows] : S \in SUBSET CityKeys }

\* deltas given to the scoring helpers directly: cost in 1/10 point (the caps
\* of the cost term are reached at -66.7 and +125), life expectancy in
\* 1/1000 year (the near-zero test is at 0.01, the caps at -3 and +3), AQI
\* in 1/10 point (the caps at -166.7 and +133.4)
CostDeltas ==
    {-10000000, -20000, -1000, -667, -666, -5, 0, 5, 700, 1250, 1251, 20000, 10000000}
LifeExpDeltas ==
    {-20000, -3001, -3000, -1234, -11, -10, -9, -5, 0, 5, 9, 10, 11, 1234, 3000, 3004, 12300, 20000}
AqiDeltas == {-5000, -1667, -1430, -3, 0, 3, 1333, 1334, 5000}

\* the largest |cost_delta| (1/10 point) given to _calculate_cost_per_life_year:
\* beyond it the ratio in 1/100 is outside TLC's integers
MaxRatioCostDelta == 20000

InitCalc ==
    /\ AqiIdle
    /\ HealthIdle
    /\ ScaleIdle
    /\ queries_ok = <<TRUE, TRUE>>
    /\ comparison = NoOutcome
    /\ reverse_comparison = NoOutcome
    /\ recommendation_score = None
    /\ cost_per_life_year = None
    /\ \/ /\ calc_pc = "request"
          /\ cities_analysis \in Databases
          /\ origin_city = "A"
          /\ destination_city \in CityKeys
          /\ cost_delta = 0
          /\ life_exp_delta = 0
          /\ aqi_delta = 0
       \/ /\ calc_pc = "deltas"
          /\ cities_analysis = NoRows
          /\ origin_city = "A"
          /\ destination_city = "B"
          /\ cost_delta \in CostDeltas
          /\ life_exp_delta \in LifeExpDeltas
          /\ aqi_delta \in AqiDeltas
    /\ EstimateIdle
    /\ ConcurrentIdle
    /\ PairIdle
    /\ EtlIdle

\* LifeCostCalculator.calculate_comparison(origin_city, destination_city);
\* each of its two queries runs or fails
CalculateComparison ==
    /\ calc_pc = "request"
    /\ \E origin_ok \in BOOLEAN, dest_ok \in BOOLEAN :
          /\ queries_ok' = <<origin_ok, dest_ok>>
          /\ comparison' = calculate_comparison(cities_analysis, origin_ok, dest_ok,
                                                origin_city, destination_city)
    /\ calc_pc' = "compared"
    /\ UNCHANGED <<cities_analysis, origin_city, destination_city, reverse_comparison,
                   cost_delta, life_exp_delta, aqi_delta, recommendation_score,
                   cost_per_life_year>>
    /\ UNCHANGED <<aqiVars, healthVars, scaleVars>>
    /\ UNCHANGED estimateVars
    /\ UNCHANGED concurrentVars
    /\ UNCHANGED pairVars
    /\ UNCHANGED etlVars

\* LifeCostCalculator.calculate_comparison(destination_city, origin_city), the
\* same pair asked in the other direction over the same rows
CalculateReverseComparison ==
    /\ calc_pc = "compared"
    /\ \E origin_ok \in BOOLEAN, dest_ok \in BOOLEAN :
          /\ queries_ok' = <<origin_ok, dest_ok>>
          /\ reverse_comparison' = calculate_comparison(cities_analysis, origin_ok, dest_ok,
                                                        destination_city, origin_city)
    /\ calc_pc' = "reversed"
    /\ UNCHANGED <<cities_analysis, origin_city, destination_city, comparison,
                   cost_delta, life_exp_delta, aqi_delta, recommendation_score,
                   cost_per_life_year>>
    /\ UNCHANGED <<aqiVars, healthVars, scaleVars>>
    /\ UNCHANGED estimateVars
    /\ UNCHANGED concurrentVars
    /\ UNCHANGED pairVars
    /\ UNCHANGED etlVars

\* LifeCostCalculator._calculate_recommendation_score(cost_delta, life_exp_delta, aqi_delta)
CalculateRecommendationScore ==
    /\ calc_pc = "deltas"
    /\ recommendation_score' =
          Some(calculate_recommendation_score(cost_delta, life_exp_delta, aqi_delta))
    /\ calc_pc' = "scored"
    /\ UNCHANGED <<cities_analysis, queries_ok, origin_city, destination_city, comparison,
                   reverse_comparison, cost_delta, life_exp_delta, aqi_delta,
                   cost_per_life_year>>
    /\ UNCHANGED <<aqiVars, healthVars, scaleVars>>
    /\ UNCHANGED estimateVars
    /\ UNCHANGED concurrentVars
    /\ UNCHANGED pairVars
    /\ UNCHANGED etlVars

\* LifeCostCalculator._calculate_cost_per_life_year(cost_delta, life_exp_delta)
CalculateCostPerLifeYear ==
    /\ calc_pc = "deltas"
    /\ Abs(cost_delta) <= MaxRatioCostDelta
    /\ cost_per_life_year' = calculate_cost_per_life_year(cost_delta, life_exp_delta)
    /\ calc_pc' = "ratio"
    /\ UNCHANGED <<cities_analysis, queries_ok, origin_city, destination_city, comparison,
                   reverse_comparison, cost_delta, life_exp_delta, aqi_delta,
                   recommendation_score>>
    /\ UNCHANGED <<aqiVars, healthVars, scaleVars>>
    /\ UNCHANGED estimateVars
    /\ UNCHANGED concurrentVars
    /\ UNCHANGED pairVars
    /\ UNCHANGED etlVars

NextCalc ==
    \/ CalculateComparison
    \/ CalculateReverseComparison
    \/ CalculateRecommendationScore
    \/ CalculateCostPerLifeYear

SpecCalc == InitCalc /\ [][NextCalc]_vars

----------------------------------------------------------------------------
(* Direct calls of _calculate_health_adjusted_life_expectancy_delta *)

\* the values a key of a city dict may be bound to; Absent stands for a dict
\* without the key
Absent == <<"absent", "key">>

LifeExpectancyValues == {Absent, None, Some(6970), Some(8200)}

AqiFieldValues == {Absent, None, Some(420), Some(1850)}

\* PM2.5 in 1/100 ug/m3: not positive, at and just above each risk tier
\* bound (12, 25, 50), and the demonstration cities' values
Pm25DictValues ==
    {Absent, None, Some(-100), Some(0), Some(1008), Some(1200), Some(1201), Some(2500),
     Some(2501), Some(5000), Some(5001), Some(12183)}

\* the dict with the given bindings, absent keys left out
CityDict(aqi, life, pm25) ==
    LET all == [standardized_aqi |-> aqi, life_expectancy |-> life, pm25_concentration |-> pm25]
    IN  [k \in { f \in DOMAIN all : all[f] # Absent } |-> all[k]]

CityDicts ==
    { CityDict(aqi, life, pm25) :
        aqi \in AqiFieldValues, life \in LifeExpectancyValues, pm25 \in Pm25DictValues }

InitHealth ==
    /\ AqiIdle
    /\ CalcIdle
    /\ ScaleIdle
    /\ health_pc = "ready"
    /\ origin_record \in CityDicts
    /\ destination_record \in CityDicts
    /\ health_delta = NoOutcome
    /\ EstimateIdle
    /\ ConcurrentIdle
    /\ PairIdle
    /\ EtlIdle

\* LifeCostCalculator._calculate_health_adjusted_life_expectancy_delta(origin_data, destination_data)
CalculateHealthAdjustedLifeExpectancyDelta ==
    /\ health_pc = "ready"
    /\ health_delta' = calculate_health_adjusted_life_expectancy_delta_on_dicts(
                            origin_record, destination_record)
    /\ health_pc' = "adjusted"
    /\ UNCHANGED <<origin_record, destination_record>>
    /\ UNCHANGED <<aqiVars, calcVars, scaleVars>>
    /\ UNCHANGED estimateVars
    /\ UNCHANGED concurrentVars
    /\ UNCHANGED pairVars
    /\ UNCHANGED etlVars

NextHealth == CalculateHealthAdjustedLifeExpectancyDelta

SpecHealth == InitHealth /\ [][NextHealth]_vars

----------------------------------------------------------------------------
(* Calls of the normalizer's scale functions *)

\* AQI values in 1/10 point: negative, zero, each band bound with its two
\* neighbours, values inside the bands, and values above 500
AqiValues ==
    {-100, 0, 1, 250, 499, 500, 501, 750, 999, 1000, 1001, 1250, 1499, 1500, 1501,
     1750, 1999, 2000, 2001, 2500, 2999, 3000, 3001, 4000, 5000, 5001, 6000, 9000}

\* source_standard: the known names in several spellings, unknown names and
\* the empty string
StandardNames ==
    {"epa", "EPA", "us", "US", "Us", "china", "China", "cn", "CN", "india", "INDIA",
     "eu", "EU", "european", "European", "who", "WHO", "aqicn", ""}

InitScale ==
    /\ AqiIdle
    /\ CalcIdle
    /\ HealthIdle
    /\ scale_pc = "ready"
    /\ aqi_value \in AqiValues
    /\ source_standard \in StandardNames
    /\ normalized_aqi = None
    /\ aqi_category = None
    /\ health_impact_score = None
    /\ EstimateIdle
    /\ ConcurrentIdle
    /\ PairIdle
    /\ EtlIdle

\* AQINormalizer.normalize_existing_aqi(aqi_value, source_standard)
NormalizeExistingAqi ==
    /\ scale_pc = "ready"
    /\ normalized_aqi' = normalize_existing_aqi(aqi_value, source_standard)
    /\ scale_pc' = "normalized"
    /\ UNCHANGED <<aqi_value, source_standard, aqi_category, health_impact_score>>
    /\ UNCHANGED <<aqiVars, calcVars, healthVars>>
    /\ UNCHANGED estimateVars
    /\ UNCHANGED concurrentVars
    /\ UNCHANGED pairVars
    /\ UNCHANGED etlVars

\* AQINormalizer.get_aqi_category(aqi_value)
GetAqiCategory ==
    /\ scale_pc = "ready"
    /\ aqi_category' = Some(get_aqi_category(aqi_value))
    /\ scale_pc' = "categorized"
    /\ UNCHANGED <<aqi_value, source_standard, normalized_aqi, health_impact_score>>
    /\ UNCHANGED <<aqiVars, calcVars, healthVars>>
    /\ UNCHANGED estimateVars
    /\ UNCHANGED concurrentVars
    /\ UNCHANGED pairVars
    /\ UNCHANGED etlVars

\* AQINormalizer.calculate_health_impact_score(aqi_value)
CalculateHealthImpactScore ==
    /\ scale_pc = "ready"
    /\ health_impact_score' = Some(calculate_health_impact_score(aqi_value))
    /\ scale_pc' = "impact"
    /\ UNCHANGED <<aqi_value, source_standard, normalized_aqi, aqi_category>>
    /\ UNCHANGED <<aqiVars, calcVars, healthVars>>
    /\ UNCHANGED estimateVars
    /\ UNCHANGED concurrentVars
    /\ UNCHANGED pairVars
    /\ UNCHANGED etlVars

NextScale == NormalizeExistingAqi \/ GetAqiCategory \/ CalculateHealthImpactScore

SpecScale == InitScale /\ [][NextScale]_vars

----------------------------------------------------------------------------
(* _aqi_to_pm25_estimate followed by the PM2.5 lookup of the normalizer *)

\* the largest standardized AQI given to _aqi_to_pm25_estimate, in 1/10 point
MaxEstimateAqi == 5000

\* a breakpoint table with its concentration bounds in a unit k times finer
Rescaled(t, k) == [i \in 1..Len(t) |-> <<t[i][1] * k, t[i][2] * k, t[i][3], t[i][4]>>]

InitEstimate ==
    /\ AqiIdle
    /\ CalcIdle
    /\ HealthIdle
    /\ ScaleIdle
    /\ estimate_pc = "ready"
    /\ estimate_aqi \in 0..MaxEstimateAqi
    /\ pm25_estimate = 0
    /\ estimate_index = None
    /\ ConcurrentIdle
    /\ PairIdle
    /\ EtlIdle

\* LifeCostCalculator._aqi_to_pm25_estimate(aqi), then
\* AQINormalizer._calculate_pollutant_aqi(estimate, pm25_breakpoints); the
\* estimate is in 1/10000 ug/m3, so the table's bounds are taken in that unit
EstimateAndLookUp ==
    /\ estimate_pc = "ready"
    /\ pm25_estimate' = aqi_to_pm25_estimate(estimate_aqi)
    /\ estimate_index' = calculate_pollutant_aqi(aqi_to_pm25_estimate(estimate_aqi),
                                                 Rescaled(pm25_breakpoints, 100))
    /\ estimate_pc' = "estimated"
    /\ UNCHANGED estimate_aqi
    /\ UNCHANGED <<aqiVars, calcVars, healthVars, scaleVars>>
    /\ UNCHANGED concurrentVars
    /\ UNCHANGED pairVars
    /\ UNCHANGED etlVars

NextEstimate == EstimateAndLookUp

SpecEstimate == InitEstimate /\ [][NextEstimate]_vars

----------------------------------------------------------------------------
(* Concurrent calculate_comparison requests, each on its own calculator     *)
(* (app.py constructs a LifeCostCalculator per request) and its own         *)
(* connection per query (DatabaseManager.get_connection)                    *)

\* the stored rows: the demonstration pair with and without PM2.5, and a
\* pair with NULL columns
ConcurrentDatabases ==
    { [k \in {"A", "B"} |-> IF k = "A" THEN a ELSE b] :
        <<a, b>> \in { <<CityRow(Some(1850), Some(450), Some(6970), Some(12183)),
                          CityRow(Some(420), Some(1150), Some(8200), Some(1008))>>,
                        <<CityRow(Some(1850), Some(450), Some(6970), None),
                          CityRow(Some(420), Some(1150), Some(8200), None)>>,
                        <<CityRow(None, None, None, None),
                          CityRow(Some(420), None, Some(8200), None)>> } }

\* the (origin, destination) keys of a request; "C" has no row
RequestPairs == { <<"A", "B">>, <<"B", "A">>, <<"A", "A">>, <<"A", "C">> }

\* mutant of StoreLocal: the value kept in one place shared by all requests
StoreLocal_shared(locals, t, value) == [u \in DOMAIN locals |-> value]

\* origin_data = ... / destination_data = ...: a local variable of the call
StoreLocal(locals, t, value) == [locals EXCEPT ![t] = value]

InitConcurrent ==
    /\ AqiIdle
    /\ CalcIdle
    /\ HealthIdle
    /\ ScaleIdle
    /\ EstimateIdle
    /\ view_rows \in ConcurrentDatabases
    /\ request_keys \in [Requests -> RequestPairs]
    /\ request_pc = [t \in Requests |-> "start"]
    /\ origin_local = [t \in Requests |-> None]
    /\ destination_local = [t \in Requests |-> None]
    /\ response = [t \in Requests |-> NoOutcome]
    /\ PairIdle
    /\ EtlIdle

\* origin_data = self._get_city_data(origin_city)
FetchOrigin(t) ==
    /\ request_pc[t] = "start"
    /\ origin_local' = StoreLocal(origin_local, t,
                                  get_city_data(view_rows, TRUE, request_keys[t][1]))
    /\ request_pc' = [request_pc EXCEPT ![t] = "origin"]
    /\ UNCHANGED <<view_rows, request_keys, destination_local, response>>
    /\ UNCHANGED <<aqiVars, calcVars, healthVars, scaleVars, estimateVars>>
    /\ UNCHANGED pairVars
    /\ UNCHANGED etlVars

\* destination_data = self._get_city_data(destination_city)
FetchDestination(t) ==
    /\ request_pc[t] = "origin"
    /\ destination_local' = StoreLocal(destination_local, t,
                                       get_city_data(view_rows, TRUE, request_keys[t][2]))
    /\ request_pc' = [request_pc EXCEPT ![t] = "destination"]
    /\ UNCHANGED <<view_rows, request_keys, origin_local, response>>
    /\ UNCHANGED <<aqiVars, calcVars, healthVars, scaleVars, estimateVars>>
    /\ UNCHANGED pairVars
    /\ UNCHANGED etlVars

\* the rest of calculate_comparison: the not-found test, the deltas, the
\* score and the result dict, all from the call's own locals
CompareFetched(t) ==
    /\ request_pc[t] = "destination"
    /\ response' = [response EXCEPT ![t] =
                        compare_city_data(origin_local[t], destination_local[t],
                                          request_keys[t][1], request_keys[t][2])]
    /\ request_pc' = [request_pc EXCEPT ![t] = "done"]
    /\ UNCHANGED <<view_rows, request_keys, origin_local, destination_local>>
    /\ UNCHANGED <<aqiVars, calcVars, healthVars, scaleVars, estimateVars>>
    /\ UNCHANGED pairVars
    /\ UNCHANGED etlVars

NextConcurrent ==
    \E t \in Requests : FetchOrigin(t) \/ FetchDestination(t) \/ CompareFetched(t)

SpecConcurrent == InitConcurrent /\ [][NextConcurrent]_vars

----------------------------------------------------------------------------
(* A function called twice, on arguments that differ in one place *)

\* AQI values in 1/10 point around the thresholds 50, 100 and 200 of the
\* conversion curves
PairAqiValues == {0, 250, 499, 500, 501, 750, 999, 1000, 1001, 1500, 1999, 2000, 2001, 3000, 6000}

PairStandards == {"china", "CN", "india", "eu", "European", "epa"}

\* positive PM2.5 concentrations in 1/100 ug/m3, at and just above the risk
\* tier bounds 12, 25 and 50
PairPm25Values == {500, 1008, 1200, 1201, 2500, 2501, 5000, 5001, 12183}

\* the record of a city with the given PM2.5 concentration
PairCity(life, pm25) ==
    [standardized_aqi |-> 1000, life_expectancy |-> life, pm25_concentration |-> pm25]

PairCostDeltas == {-1000, -667, -5, 0, 5, 700, 1250, 1251}
PairLifeExpDeltas == {-3001, -3000, -11, -5, 0, 5, 11, 3000, 12300}
PairAqiDeltas == {-1667, -1430, -3, 0, 3, 1333, 1334}

InitPairs ==
    /\ AqiIdle
    /\ CalcIdle
    /\ HealthIdle
    /\ ScaleIdle
    /\ EstimateIdle
    /\ ConcurrentIdle
    /\ pair_pc = "ready"
    /\ first_result = None
    /\ second_result = None
    /\ \/ /\ pair_call = "normalize_existing_aqi"
          /\ \E x \in PairAqiValues, y \in PairAqiValues, standard \in PairStandards :
                /\ x <= y
                /\ first_args = <<x, standard>>
                /\ second_args = <<y, standard>>
       \/ /\ pair_call = "_calculate_health_adjusted_life_expectancy_delta"
          /\ \E x \in PairPm25Values, y \in PairPm25Values, dest \in PairPm25Values,
                life \in {6970, 8200} :
                /\ x <= y
                /\ first_args = <<PairCity(life, x), PairCity(7500, dest)>>
                /\ second_args = <<PairCity(life, y), PairCity(7500, dest)>>
       \/ /\ pair_call = "_calculate_recommendation_score"
          /\ \E c \in PairCostDeltas, d \in PairLifeExpDeltas, a \in PairAqiDeltas :
                /\ first_args = <<c, d, a>>
                /\ \/ \E c2 \in PairCostDeltas : c <= c2 /\ second_args = <<c2, d, a>>
                   \/ \E d2 \in PairLifeExpDeltas : d <= d2 /\ second_args = <<c, d2, a>>
                   \/ \E a2 \in PairAqiDeltas : a <= a2 /\ second_args = <<c, d, a2>>
    /\ EtlIdle

\* the result of the call on the arguments: a call of the normalizer's
\* normalize_existing_aqi(aqi_value, source_standard)
NormalizeCall(args) == normalize_existing_aqi(args[1], args[2])

\* _calculate_health_adjusted_life_expectancy_delta(origin_data, destination_data)
HealthCall(args) == Some(calculate_health_adjusted_life_expectancy_delta(args[1], args[2]))

\* _calculate_recommendation_score(cost_delta, life_exp_delta, aqi_delta)
ScoreCall(args) == Some(calculate_recommendation_score(args[1], args[2], args[3]))

\* the first of the two calls of normalize_existing_aqi
NormalizeFirst ==
    /\ pair_pc = "ready"
    /\ pair_call = "normalize_existing_aqi"
    /\ first_result' = NormalizeCall(first_args)
    /\ pair_pc' = "first"
    /\ UNCHANGED <<pair_call, first_args, second_args, second_result>>
    /\ UNCHANGED <<aqiVars, calcVars, healthVars, scaleVars, estimateVars, concurrentVars>>
    /\ UNCHANGED etlVars

\* the second of the two calls of normalize_existing_aqi
NormalizeSecond ==
    /\ pair_pc = "first"
    /\ pair_call = "normalize_existing_aqi"
    /\ second_result' = NormalizeCall(second_args)
    /\ pair_pc' = "both"
    /\ UNCHANGED <<pair_call, first_args, second_args, first_result>>
    /\ UNCHANGED <<aqiVars, calcVars, healthVars, scaleVars, estimateVars, concurrentVars>>
    /\ UNCHANGED etlVars

\* the first of the two calls of _calculate_health_adjusted_life_expectancy_delta
AdjustFirst ==
    /\ pair_pc = "ready"
    /\ pair_call = "_calculate_health_adjusted_life_expectancy_delta"
    /\ first_result' = HealthCall(first_args)
    /\ pair_pc' = "first"
    /\ UNCHANGED <<pair_call, first_args, second_args, second_result>>
    /\ UNCHANGED <<aqiVars, calcVars, healthVars, scaleVars, estimateVars, concurrentVars>>
    /\ UNCHANGED etlVars

\* the second of the two calls of _calculate_health_adjusted_life_expectancy_delta
AdjustSecond ==
    /\ pair_pc = "first"
    /\ pair_call = "_calculate_health_adjusted_life_expectancy_delta"
    /\ second_result' = HealthCall(second_args)
    /\ pair_pc' = "both"
    /\ UNCHANGED <<pair_call, first_args, second_args, first_result>>
    /\ UNCHANGED <<aqiVars, calcVars, healthVars, scaleVars, estimateVars, concurrentVars>>
    /\ UNCHANGED etlVars

\* the first of the two calls of _calculate_recommendation_score
ScoreFirst ==
    /\ pair_pc = "ready"
    /\ pair_call = "_calculate_recommendation_score"
    /\ first_result' = ScoreCall(first_args)
    /\ pair_pc' = "first"
    /\ UNCHANGED <<pair_call, first_args, second_args, second_result>>
    /\ UNCHANGED <<aqiVars, calcVars, healthVars, scaleVars, estimateVars, concurrentVars>>
    /\ UNCHANGED etlVars

\* the second of the two calls of _calculate_recommendation_score
ScoreSecond ==
    /\ pair_pc = "first"
    /\ pair_call = "_calculate_recommendation_score"
    /\ second_result' = ScoreCall(second_args)
    /\ pair_pc' = "both"
    /\ UNCHANGED <<pair_call, first_args, second_args, first_result>>
    /\ UNCHANGED <<aqiVars, calcVars, healthVars, scaleVars, estimateVars, concurrentVars>>
    /\ UNCHANGED etlVars

NextPairs ==
    \/ NormalizeFirst \/ NormalizeSecond
    \/ AdjustFirst \/ AdjustSecond
    \/ ScoreFirst \/ ScoreSecond

SpecPairs == InitPairs /\ [][NextPairs]_vars

----------------------------------------------------------------------------
(* ETLPipeline._insert_air_quality_data and _insert_cost_of_living_data, with
   a concurrent LifeCostCalculator._get_city_data *)

\* rows of table air_quality: PM2.5 in 1/100 ug/m3, AQI in 1/10 point
AirQualityRows ==
    { [pm25_concentration |-> 12183, standardized_aqi |-> 1850],
      [pm25_concentration |-> 1008, standardized_aqi |-> 420],
      [pm25_concentration |-> 2600, standardized_aqi |-> 810] }

\* rows of table cost_of_living: the index in 1/10 point
CostOfLivingRows ==
    { [cost_of_living_index |-> 450], [cost_of_living_index |-> 1150],
      [cost_of_living_index |-> 1000] }

\* the city's row of view cities_analysis: LEFT JOINs of cities with
\* air_quality, cost_of_living and life_expectancy, NULL where no row matches
cities_analysis_row(aq, col) ==
    CityRow(IF aq = None THEN None ELSE Some(Val(aq).standardized_aqi),
            IF col = None THEN None ELSE Some(Val(col).cost_of_living_index),
            Some(6970),
            IF aq = None THEN None ELSE Some(Val(aq).pm25_concentration))

\* the refreshed table's row of the city
TableRow == IF etl_table = "air_quality" THEN air_quality ELSE cost_of_living

InitEtl ==
    /\ AqiIdle
    /\ CalcIdle
    /\ HealthIdle
    /\ ScaleIdle
    /\ EstimateIdle
    /\ ConcurrentIdle
    /\ PairIdle
    /\ etl_pc = "ready"
    /\ etl_table \in {"air_quality", "cost_of_living"}
    /\ air_quality \in {None} \cup { Some(r) : r \in AirQualityRows }
    /\ cost_of_living \in {None} \cup { Some(r) : r \in CostOfLivingRows }
    /\ previous_row = TableRow
    /\ new_row \in { Some(r) : r \in IF etl_table = "air_quality" THEN AirQualityRows
                                                                  ELSE CostOfLivingRows }
    /\ insert_outcome = "pending"
    /\ reader_pc = "waiting"
    /\ observed_row = None
    /\ observed_data = None

\* self.db_manager.execute_query(delete_query, [city_id]): a transaction of
\* its own, committed when the statement succeeds; when it fails
\* execute_query reports the error and returns None, and the refresh goes on
DeleteExisting ==
    /\ etl_pc = "ready"
    /\ \E statement_ok \in BOOLEAN :
          IF statement_ok
          THEN /\ air_quality' = IF etl_table = "air_quality" THEN None ELSE air_quality
               /\ cost_of_living' = IF etl_table = "cost_of_living" THEN None
                                                                     ELSE cost_of_living
          ELSE UNCHANGED <<air_quality, cost_of_living>>
    /\ etl_pc' = "deleted"
    /\ UNCHANGED <<etl_table, previous_row, new_row, insert_outcome, reader_pc,
                   observed_row, observed_data>>
    /\ UNCHANGED <<aqiVars, calcVars, healthVars, scaleVars, estimateVars, concurrentVars,
                   pairVars>>

\* self.db_manager.execute_query(query, params): a second transaction; when
\* the INSERT fails execute_query reports the error and returns None, and the
\* function returns
InsertRow ==
    /\ etl_pc = "deleted"
    /\ \E statement_ok \in BOOLEAN :
          IF statement_ok
          THEN /\ air_quality' = IF etl_table = "air_quality" THEN new_row ELSE air_quality
               /\ cost_of_living' = IF etl_table = "cost_of_living" THEN new_row
                                                                     ELSE cost_of_living
               /\ insert_outcome' = "ok"
          ELSE /\ UNCHANGED <<air_quality, cost_of_living>>
               /\ insert_outcome' = "failed"
    /\ etl_pc' = "returned"
    /\ UNCHANGED <<etl_table, previous_row, new_row, reader_pc, observed_row, observed_data>>
    /\ UNCHANGED <<aqiVars, calcVars, healthVars, scaleVars, estimateVars, concurrentVars,
                   pairVars>>

\* _get_city_data(city_full_name) of a calculator running beside the refresh:
\* its query reads what is committed at that moment
GetCityData ==
    /\ reader_pc = "waiting"
    /\ LET row == cities_analysis_row(air_quality, cost_of_living)
       IN  /\ observed_row' = Some(row)
           /\ observed_data' = get_city_data([k \in {"A"} |-> row], TRUE, "A")
    /\ reader_pc' = "read"
    /\ UNCHANGED <<etl_pc, etl_table, air_quality, cost_of_living, previous_row, new_row,
                   insert_outcome>>
    /\ UNCHANGED <<aqiVars, calcVars, healthVars, scaleVars, estimateVars, concurrentVars,
                   pairVars>>

NextEtl == DeleteExisting \/ InsertRow \/ GetCityData

SpecEtl == InitEtl /\ [][NextEtl]_vars

----------------------------------------------------------------------------
(* Properties of the normalizer, under SpecAqi *)

\* the pollutants of the reading that are present, non-null and yielded a value
Yielding(data) ==
    { p \in Pollutants : Available(data, p) /\ IndividualAqi(data, p) # None }

\* the reading {'pm25': 12.0, 'pm10': 200}
ReadingPm25Pm10 == [p \in {"pm25", "pm10"} |-> IF p = "pm25" THEN Some(1200) ELSE Some(2000)]

\* C1: calculate_standardized_aqi returns the maximum of the individual AQIs of
\* the present, non-null pollutants that yielded a value: the result is the
\* index of one of them and no other one has a larger index; for
\* {'pm25': 12.0, 'pm10': 200} it is the larger of the two indices.
C1_WorstPollutantGoverns ==
    aqi_pc = "standardized" =>
        /\ Yielding(pollutant_data) # {} =>
              /\ std_aqi # None
              /\ \E p \in Yielding(pollutant_data) : IndividualAqi(pollutant_data, p) = std_aqi
              /\ \A p \in Yielding(pollutant_data) :
                    Val(IndividualAqi(pollutant_data, p)) <= Val(std_aqi)
        /\ pollutant_data = ReadingPm25Pm10 =>
              std_aqi = Some(Max2(Val(calculate_pollutant_aqi(1200, pm25_breakpoints)),
                                  Val(calculate_pollutant_aqi(2000, pm10_breakpoints))))

\* C1 witness: the reading {'pm25': 12.0, 'pm10': 200} was normalized to the PM10
\* index 123.3, above the PM2.5 index 50.0.
C1_Witness ==
    /\ aqi_pc = "standardized"
    /\ pollutant_data = ReadingPm25Pm10
    /\ std_aqi = Some(1233)

\* C2: a reading with at least one non-null, non-negative concentration yields a
\* numeric AQI, never None.
C2_ValueWheneverAvailable ==
    (/\ aqi_pc = "standardized"
     /\ \E p \in Pollutants : Available(pollutant_data, p) /\ Val(pollutant_data[p]) >= 0)
    => std_aqi # None

\* C7: every value returned by the lookup and by calculate_standardized_aqi is
\* within 0..500, and above the top row the value is not below the top row's
\* aqi_high (extrapolated upwards) and not above 500 (capped).
C7_WithinZeroAndFiveHundred ==
    /\ (aqi_pc = "standardized" /\ std_aqi # None) =>
          (0 <= Val(std_aqi) /\ Val(std_aqi) <= 5000)
    /\ (aqi_pc = "looked_up" /\ pollutant_aqi # None) =>
          /\ 0 <= Val(pollutant_aqi) /\ Val(pollutant_aqi) <= 5000
          /\ LET t == Breakpoints(lookup_table) IN
             concentration > t[Len(t)][2] => Val(pollutant_aqi) >= 10 * t[Len(t)][4]

\* C7 witness: an O3 concentration above the five-row table's top bound whose
\* extrapolated index was capped at 500.
C7_Witness ==
    /\ aqi_pc = "looked_up"
    /\ lookup_table = "o3"
    /\ concentration > o3_breakpoints[5][2]
    /\ pollutant_aqi = Some(5000)

\* C8: at a row's lower bound the lookup returns the row's aqi_low, at its upper
\* bound the row's aqi_high; {'pm25': 12.0} gives 50.0 and {'pm25': 35.4} 100.0.
C8_BoundsGiveRowIndices ==
    /\ aqi_pc = "looked_up" =>
          \A i \in 1..Len(Breakpoints(lookup_table)) :
             LET row == Breakpoints(lookup_table)[i] IN
             /\ concentration = row[1] => pollutant_aqi = Some(10 * row[3])
             /\ concentration = row[2] => pollutant_aqi = Some(10 * row[4])
    /\ (aqi_pc = "standardized" /\ pollutant_data = [p \in {"pm25"} |-> Some(1200)]) =>
          std_aqi = Some(500)
    /\ (aqi_pc = "standardized" /\ pollutant_data = [p \in {"pm25"} |-> Some(3540)]) =>
          std_aqi = Some(1000)

\* C8 witness: the lookup at the lower bound of the second O3 row returned 51.
C8_Witness ==
    /\ aqi_pc = "looked_up"
    /\ lookup_table = "o3"
    /\ concentration = o3_breakpoints[2][1]
    /\ pollutant_aqi = Some(510)

\* C9 as stated: at the upper bound of a row that has a successor, the lookup
\* returns the successor's aqi_low.
C9_UpperBoundGivesNextIndexLow ==
    aqi_pc = "looked_up" =>
        \A i \in 1..(Len(Breakpoints(lookup_table)) - 1) :
           concentration = Breakpoints(lookup_table)[i][2] =>
              pollutant_aqi = Some(10 * Breakpoints(lookup_table)[i + 1][3])

\* C9 amended: at the upper bound of a row that has a successor, the lookup
\* returns one index point less than the successor's aqi_low.
C9_UpperBoundOneBelowNextIndexLow ==
    aqi_pc = "looked_up" =>
        \A i \in 1..(Len(Breakpoints(lookup_table)) - 1) :
           concentration = Breakpoints(lookup_table)[i][2] =>
              pollutant_aqi = Some(10 * Breakpoints(lookup_table)[i + 1][3] - 10)

\* C9 witness: the lookup at the upper bound of the first PM2.5 row (12.0)
\* returned 50, the successor row starting at index 51.
C9_Witness ==
    /\ aqi_pc = "looked_up"
    /\ lookup_table = "pm25"
    /\ concentration = pm25_breakpoints[1][2]
    /\ pollutant_aqi = Some(500)
    /\ pm25_breakpoints[2][3] = 51

\* the reading without its negative entries
WithoutNegatives(data) ==
    [p \in { q \in DOMAIN data : data[q] = None \/ Val(data[q]) >= 0 } |-> data[p]]

\* C10: a negative concentration only removes its pollutant from the maximum:
\* the result is the result for the reading without its negative entries, and
\* a reading with no entry that is a non-negative concentration yields None.
C10_NegativeOnlyExcluded ==
    aqi_pc = "standardized" =>
        /\ std_aqi = calculate_standardized_aqi(WithoutNegatives(pollutant_data))
        /\ (\A p \in DOMAIN pollutant_data :
               pollutant_data[p] = None \/ Val(pollutant_data[p]) < 0) => std_aqi = None

\* C10 witness: a reading with a negative entry and another entry that yielded a
\* value was normalized to a value.
C10_Witness ==
    /\ aqi_pc = "standardized"
    /\ \E p \in DOMAIN pollutant_data :
          pollutant_data[p] # None /\ Val(pollutant_data[p]) < 0
    /\ std_aqi # None

----------------------------------------------------------------------------
(* Properties of the calculator, under SpecCalc *)

\* the recommendation scores the state holds
ScoresHeld ==
    (IF calc_pc = "scored" THEN {Val(recommendation_score)} ELSE {})
    \cup (IF comparison.result # None
          THEN {Val(comparison.result).recommendation_score} ELSE {})
    \cup (IF reverse_comparison.result # None
          THEN {Val(reverse_comparison.result).recommendation_score} ELSE {})

\* C3: the recommendation score returned by _calculate_recommendation_score and
\* carried by a ComparisonResult is within 0..100, also for extreme deltas such
\* as cost_delta = 1,000,000.
C3_ScoreWithinZeroAndHundred == \A x \in ScoresHeld : 0 <= x /\ x <= 1000

\* C3 witness: cost_delta = +1,000,000 with a 20-year loss and 500 points more
\* AQI was scored 0 (50 - 30 - 25 - 20 = -25 before the clamp).
C3_Witness ==
    /\ calc_pc = "scored"
    /\ cost_delta = 10000000
    /\ life_exp_delta = -20000
    /\ aqi_delta = 5000
    /\ recommendation_score = Some(0)

\* whether the call's origin or destination resolved to no record: a query
\* failed or the key has no row
Unresolved(first, second) ==
    \/ ~queries_ok[1] \/ first \notin DOMAIN cities_analysis
    \/ ~queries_ok[2] \/ second \notin DOMAIN cities_analysis

C5_ReverseNegatesDeltas ==
    (/\ calc_pc = "reversed"
     /\ comparison.result # None
     /\ reverse_comparison.result # None)
    => LET ab == Val(comparison.result)
           ba == Val(reverse_comparison.result)
       IN  /\ ba.cost_delta = -ab.cost_delta
           /\ ba.aqi_delta = -ab.aqi_delta
           /\ ba.life_expectancy_delta = -ab.life_expectancy_delta
           /\ ba.health_adjusted_life_exp_delta = -ab.health_adjusted_life_exp_delta

\* C5 witness: both directions returned for two cities whose PM2.5 is known and
\* lies in different risk tiers, with a health-adjusted delta that differs from
\* the base delta.
C5_Witness ==
    /\ calc_pc = "reversed"
    /\ comparison.result # None
    /\ reverse_comparison.result # None
    /\ origin_city # destination_city
    /\ cities_analysis[origin_city].pm25_concentration = Some(1008)
    /\ cities_analysis[destination_city].pm25_concentration = Some(2600)
    /\ Val(comparison.result).health_adjusted_life_exp_delta
          # 10 * Val(comparison.result).life_expectancy_delta
    /\ Val(reverse_comparison.result).health_adjusted_life_exp_delta
          = -Val(comparison.result).health_adjusted_life_exp_delta

\* the value v (1/100) is cost * 10 / life rounded to two decimals, carrying the
\* ratio's sign: v is within half a 1/100 of the exact ratio
IsRoundedRatio(v, cost, life) ==
    /\ 2 * Abs(v * life - cost * 100000) <= Abs(life)
    /\ (cost * life > 0 => v >= 0)
    /\ (cost * life < 0 => v <= 0)
    /\ (cost = 0 => v = 0)

----------------------------------------------------------------------------
(* Properties of the normalizer given malformed readings, under SpecAqiMalformed *)

\* the present pollutants of the reading whose value is not a number
Failing(data) == { p \in Pollutants : Available(data, p) /\ ~IsNumeric(data[p]) }

\* the individual AQIs of the present pollutants whose value is a number
RemainingAqis(data) ==
    { Val(IndividualAqi(data, p)) :
        p \in { q \in Pollutants : /\ Available(data, q)
                                   /\ IsNumeric(data[q])
                                   /\ IndividualAqi(data, q) # None } }

\* the reading {'pm25': 12.0, 'no2': 'n/a'}
ReadingPm25BadNo2 == [p \in {"pm25", "no2"} |-> IF p = "pm25" THEN Some(1200) ELSE NonNumeric]

\* C11: calculate_standardized_aqi never raises, and a pollutant whose value
\* cannot be converted or compared is alone treated as 'no value': the result
\* is the maximum of the individual AQIs of the remaining pollutants (None only
\* when none of them yields a value).
C11_FailingPollutantAloneExcluded ==
    (aqi_pc = "standardized" /\ Failing(pollutant_data) # {}) =>
        std_aqi = IF RemainingAqis(pollutant_data) = {} THEN None
                  ELSE Some(SetMax(RemainingAqis(pollutant_data)))

----------------------------------------------------------------------------
(* Properties of the health-adjusted delta, under SpecHealth *)

\* a statement of the try block after the base delta raises: the PM2.5 test
\* on None, or the read of an absent 'standardized_aqi' on the fallback path
FailsAfterBaseDelta(o, d) ==
    \/ Pm25TestRaises(o, d)
    \/ /\ ~Pm25BothPositive(o, d)
       /\ ("standardized_aqi" \notin DOMAIN o \/ "standardized_aqi" \notin DOMAIN d)

\* C12: _calculate_health_adjusted_life_expectancy_delta never raises, whatever
\* fields of the two records are missing or null: it always returns a value,
\* and after an internal failure that value is the base life-expectancy delta
\* (destination minus origin) alone.
C12_NeverRaises ==
    health_pc = "adjusted" =>
        /\ health_delta.exception = ""
        /\ health_delta.result # None
        /\ (BaseDeltaError(origin_record, destination_record) = ""
              /\ FailsAfterBaseDelta(origin_record, destination_record)) =>
                 health_delta.result =
                     Some(10 * (Val(destination_record["life_expectancy"])
                                  - Val(origin_record["life_expectancy"])))

----------------------------------------------------------------------------
(* Properties of calculate_comparison on resolved pairs, under SpecCalc *)

\* the last call found a record for both keys: both queries ran and each key
\* has a row in the view
BothResolved ==
    /\ queries_ok = <<TRUE, TRUE>>
    /\ origin_city \in DOMAIN cities_analysis
    /\ destination_city \in DOMAIN cities_analysis

\* the row whose fields are all NULL
NullRow == CityRow(None, None, None, None)

\* C13: only not-found conditions are caller-visible errors of
\* calculate_comparison.  Whenever both keys resolve it returns a result,
\* whatever the field values (NULL and zero fields included): the score is
\* within 0..100, a near-zero health-adjusted delta gives no
\* cost_per_life_year instead of a division error, and a pair without any
\* difference gives the neutral score 50.  An error is raised only when a key
\* did not resolve.
C13_ResolvedPairsAlwaysCompared ==
    calc_pc = "compared" =>
        /\ comparison.exception # "" => ~BothResolved
        /\ BothResolved =>
              /\ comparison.exception = ""
              /\ comparison.result # None
              /\ LET r == Val(comparison.result) IN
                    /\ r.recommendation_score \in 0..1000
                    /\ (r.cost_per_life_year = None) <=> (Abs(r.health_adjusted_life_exp_delta) < 10)
                    /\ (r.cost_delta = 0 /\ r.aqi_delta = 0
                          /\ r.health_adjusted_life_exp_delta = 0) =>
                          /\ r.recommendation_score = 500
                          /\ r.cost_per_life_year = None

\* C13 witness: two cities whose rows hold only NULLs were compared: the
\* result carries the defaults, the neutral score and no cost_per_life_year.
C13_Witness ==
    /\ calc_pc = "compared"
    /\ BothResolved
    /\ origin_city # destination_city
    /\ cities_analysis[origin_city] = NullRow
    /\ cities_analysis[destination_city] = NullRow
    /\ comparison.result # None
    /\ Val(comparison.result).origin_life_exp = 7500
    /\ Val(comparison.result).recommendation_score = 500
    /\ Val(comparison.result).cost_per_life_year = None

----------------------------------------------------------------------------
(* Properties of the normalizer's scale functions, under SpecScale *)

\* C14: get_aqi_category returns a category for every AQI, the upper bound of
\* each band included: values up to 50 (0 and negatives included) are
\* Good/green, 50, 100, 150, 200 and 300 fall in the lower band, anything
\* just above a bound in the next one, and every value above 300 (500
\* included) is Hazardous/maroon.
C14_BandsIncludeUpperBound ==
    scale_pc = "categorized" =>
        /\ aqi_category # None
        /\ aqi_value <= 500 => aqi_category = Some(Category("Good", "green"))
        /\ aqi_value \in {501, 1000} => aqi_category = Some(Category("Moderate", "yellow"))
        /\ aqi_value \in {1001, 1500} =>
              aqi_category = Some(Category("Unhealthy for Sensitive Groups", "orange"))
        /\ aqi_value \in {1501, 2000} => aqi_category = Some(Category("Unhealthy", "red"))
        /\ aqi_value \in {2001, 3000} => aqi_category = Some(Category("Very Unhealthy", "purple"))
        /\ aqi_value > 3000 => aqi_category = Some(Category("Hazardous", "maroon"))

\* C14 witness: the AQI 300 was categorized as Very Unhealthy, the lower band.
C14_Witness ==
    /\ scale_pc = "categorized"
    /\ aqi_value = 3000
    /\ aqi_category = Some(Category("Very Unhealthy", "purple"))

\* C15: normalize_existing_aqi returns a number for every AQI value (negative
\* and above 500 included) and every standard name, known or unknown.
C15_AlwaysANumber ==
    scale_pc = "normalized" => normalized_aqi # None

\* C15 witness: an AQI of 900 under an unknown standard name was normalized
\* to a number.
C15_Witness ==
    /\ scale_pc = "normalized"
    /\ aqi_value = 9000
    /\ source_standard = "aqicn"
    /\ normalized_aqi = Some(90000)

\* the spellings of china / cn / india / eu / european among the names passed
ForeignStandardSpellings ==
    {"china", "China", "cn", "CN", "india", "INDIA", "eu", "EU", "european", "European"}

\* C16: for 'epa' or 'us' in any case, and for any name that is not one of
\* china / cn / india / eu / european, normalize_existing_aqi returns the
\* input AQI.
C16_IdentityForEpaAndUnknown ==
    (scale_pc = "normalized" /\ source_standard \notin ForeignStandardSpellings) =>
        normalized_aqi = Some(10 * aqi_value)

\* C16 witness: the AQI 175 given as 'EPA' came back as 175.
C16_Witness ==
    /\ scale_pc = "normalized"
    /\ source_standard = "EPA"
    /\ aqi_value = 1750
    /\ normalized_aqi = Some(17500)

\* C17: calculate_health_impact_score stays within 0..100 for every AQI,
\* passes through 10, 40, 80 and 100 at the AQIs 50, 100, 150 and 200 and
\* through the midpoints of the segments between them, and every AQI of 200
\* or more gives exactly 100.
C17_WithinScaleAndSaturating ==
    scale_pc = "impact" =>
        /\ health_impact_score # None
        /\ Val(health_impact_score) \in 0..10000
        /\ aqi_value >= 2000 => health_impact_score = Some(10000)
        /\ aqi_value <= 500 => health_impact_score = Some(1000)
        /\ aqi_value = 750 => health_impact_score = Some(2500)
        /\ aqi_value = 1000 => health_impact_score = Some(4000)
        /\ aqi_value = 1250 => health_impact_score = Some(6000)
        /\ aqi_value = 1500 => health_impact_score = Some(8000)
        /\ aqi_value = 1750 => health_impact_score = Some(9000)

\* C17 witness: the AQI 500 was scored exactly 100.
C17_Witness ==
    /\ scale_pc = "impact"
    /\ aqi_value = 5000
    /\ health_impact_score = Some(10000)

----------------------------------------------------------------------------
(* The demonstration pair, under SpecCalc *)

\* the row holds the AQI, cost index and life expectancy given, with or
\* without a PM2.5 concentration
RowHolds(row, aqi, cost, life) ==
    /\ row.standardized_aqi = Some(aqi)
    /\ row.cost_of_living_index = Some(cost)
    /\ row.life_expectancy = Some(life)

\* the origin is Delhi-like (AQI 185, cost 45, life expectancy 69.7) and the
\* destination Vancouver-like (AQI 42, cost 115, life expectancy 82.0)
DelhiToVancouver ==
    /\ BothResolved
    /\ RowHolds(cities_analysis[origin_city], 1850, 450, 6970)
    /\ RowHolds(cities_analysis[destination_city], 420, 1150, 8200)

\* C18: for the origin (AQI 185, cost 45, life expectancy 69.7) and the
\* destination (AQI 42, cost 115, life expectancy 82.0) the result has
\* cost_delta = +70, aqi_delta = -143, base life-expectancy delta = +12.3 and
\* a recommendation score of at least 60, whatever PM2.5 concentrations are
\* stored and also when none is.
C18_DelhiToVancouverRecommended ==
    (calc_pc = "compared" /\ DelhiToVancouver) =>
        /\ comparison.result # None
        /\ Val(comparison.result).cost_delta = 700
        /\ Val(comparison.result).aqi_delta = -1430
        /\ Val(comparison.result).life_expectancy_delta = 1230
        /\ Val(comparison.result).recommendation_score >= 600

\* C18 witness: the pair was compared without stored PM2.5 concentrations and
\* scored above 60.
C18_Witness ==
    /\ calc_pc = "compared"
    /\ DelhiToVancouver
    /\ cities_analysis[origin_city].pm25_concentration = None
    /\ cities_analysis[destination_city].pm25_concentration = None
    /\ comparison.result # None
    /\ Val(comparison.result).cost_delta = 700
    /\ Val(comparison.result).recommendation_score >= 600

\* the pair was compared with the demonstration data's PM2.5 concentrations
\* (121.83 and 10.08 ug/m3)
C18_WitnessStored ==
    /\ calc_pc = "compared"
    /\ DelhiToVancouver
    /\ cities_analysis[origin_city].pm25_concentration = Some(12183)
    /\ cities_analysis[destination_city].pm25_concentration = Some(1008)
    /\ comparison.result # None
    /\ Val(comparison.result).recommendation_score >= 600

----------------------------------------------------------------------------
(* The two paths of the health adjustment, under SpecHealth *)

\* both life expectancies and both AQIs of the two dicts are numbers
NumericBaseAndAqi ==
    /\ BaseDeltaError(origin_record, destination_record) = ""
    /\ "standardized_aqi" \in DOMAIN origin_record
    /\ "standardized_aqi" \in DOMAIN destination_record
    /\ origin_record["standardized_aqi"] # None
    /\ destination_record["standardized_aqi"] # None

\* the PM2.5 concentration is missing (absent) or a number that is not > 0
Pm25NotPositive(rec) ==
    \/ "pm25_concentration" \notin DOMAIN rec
    \/ /\ rec["pm25_concentration"] # None
       /\ Val(rec["pm25_concentration"]) <= 0

\* the fallback path is taken: the origin's concentration is not positive, or
\* it is and the destination's is not
OnFallbackPath ==
    /\ NumericBaseAndAqi
    /\ \/ Pm25NotPositive(origin_record)
       \/ /\ origin_record["pm25_concentration"] # None
          /\ Pm25NotPositive(destination_record)

\* the base delta of the two dicts in 1/100 year
BaseDelta == Val(destination_record["life_expectancy"]) - Val(origin_record["life_expectancy"])

\* C19: on the fallback path (PM2.5 not > 0 for either city) the health term
\* is the coefficient 0.098 times the difference of the PM2.5 concentrations
\* estimated from the two AQIs (origin minus destination), without risk
\* adjustment; so the health-adjusted delta exceeds the base delta whenever
\* the destination's AQI is lower than the origin's.
C19_FallbackAddsEstimatedTerm ==
    (health_pc = "adjusted" /\ OnFallbackPath) =>
        LET origin_aqi == Val(origin_record["standardized_aqi"])
            dest_aqi == Val(destination_record["standardized_aqi"])
            term == (aqi_to_pm25_estimate(origin_aqi) - aqi_to_pm25_estimate(dest_aqi))
                        * PM25_LIFE_IMPACT_COEFFICIENT
        IN  /\ health_delta.result = Some(RoundHE(BaseDelta * 100000 + term, 10000))
            /\ dest_aqi < origin_aqi => Val(health_delta.result) > 10 * BaseDelta

\* both PM2.5 concentrations are numbers > 0
OnPrimaryPath ==
    /\ BaseDeltaError(origin_record, destination_record) = ""
    /\ Pm25BothPositive(origin_record, destination_record)

\* C20: on the primary path (both PM2.5 > 0) the health-adjusted delta is
\* round(base_delta + (origin.pm25 - dest.pm25) * 0.098 * r, 3), where r is
\* chosen by the larger of the two concentrations, the upper bound of each
\* tier included: up to 12 it is 1.0, up to 25 it is 0.9, up to 50 it is
\* 0.7, above 50 it is 0.5.
C20_PrimaryPathTieredByLargerPm25 ==
    (health_pc = "adjusted" /\ OnPrimaryPath) =>
        LET origin_pm25 == Val(origin_record["pm25_concentration"])
            dest_pm25 == Val(destination_record["pm25_concentration"])
            larger == IF origin_pm25 >= dest_pm25 THEN origin_pm25 ELSE dest_pm25
            r == CASE larger <= 1200 -> 10
                   [] larger > 1200 /\ larger <= 2500 -> 9
                   [] larger > 2500 /\ larger <= 5000 -> 7
                   [] larger > 5000 -> 5
        IN  health_delta.result =
                Some(RoundHE(BaseDelta * 100000 + (origin_pm25 - dest_pm25) * 98 * r * 10, 10000))

\* C20 witness: origin PM2.5 50.0 and destination 10.08 (tier bound 50, factor
\* 0.7) with life expectancies 69.7 and 82.0 gave 12.3 + 39.92 * 0.098 * 0.7 =
\* 15.039 years.
C20_Witness ==
    /\ health_pc = "adjusted"
    /\ OnPrimaryPath
    /\ origin_record["pm25_concentration"] = Some(5000)
    /\ destination_record["pm25_concentration"] = Some(1008)
    /\ BaseDelta = 1230
    /\ health_delta.result = Some(15039)

----------------------------------------------------------------------------
(* The breakpoint tables and the lookup, under SpecAqi *)

\* the rows of the table that contain the concentration
RowsContaining(c, t) == { i \in 1..Len(t) : InRange(c, t[i]) }

\* concentration bounds and index bounds increase within each row and from
\* row to row
TableIncreasing(t) ==
    /\ \A i \in 1..Len(t) : t[i][1] < t[i][2] /\ t[i][3] < t[i][4]
    /\ \A i \in 1..(Len(t) - 1) : t[i][2] < t[i + 1][1] /\ t[i][4] < t[i + 1][3]

\* C21: every breakpoint table is contiguous, non-overlapping and increasing:
\* a concentration between 0 and the table's top bound lies in exactly one
\* row, and the concentration bounds and the index bounds increase from row
\* to row.
C21_TablesContiguousAndIncreasing ==
    aqi_pc = "looked_up" =>
        LET t == Breakpoints(lookup_table) IN
        /\ TableIncreasing(t)
        /\ (0 <= concentration /\ concentration <= t[Len(t)][2]) =>
              Cardinality(RowsContaining(concentration, t)) = 1

\* v (in tenths) is the exact value of
\* (aqi_high - aqi_low) / (bp_high - bp_low) * (c - bp_low) + aqi_low
\* rounded to one decimal: no tenth is nearer to it
IsInterpolationRounded(v, c, row) ==
    LET width == row[2] - row[1]
        diff == (v - 10 * row[3]) * width - 10 * (row[4] - row[3]) * (c - row[1])
    IN  Abs(diff) <= width \div 2

\* C22: for a non-negative concentration the lookup uses the first row in
\* table order with bp_low <= c <= bp_high and returns the linear
\* interpolation between that row's index bounds, rounded to one decimal, a
\* value within [aqi_low, aqi_high] of that row.
C22_FirstRowInterpolated ==
    (/\ aqi_pc = "looked_up"
     /\ concentration >= 0
     /\ RowsContaining(concentration, Breakpoints(lookup_table)) # {}) =>
        LET t == Breakpoints(lookup_table)
            first == CHOOSE i \in RowsContaining(concentration, t) :
                        \A j \in RowsContaining(concentration, t) : i <= j
        IN  /\ pollutant_aqi # None
            /\ IsInterpolationRounded(Val(pollutant_aqi), concentration, t[first])
            /\ 10 * t[first][3] <= Val(pollutant_aqi)
            /\ Val(pollutant_aqi) <= 10 * t[first][4]

\* C22 witness: the PM2.5 concentration 17.92 was looked up in the second row
\* (12.1 to 35.4, index 51 to 100) and gave 63.2.
C22_Witness ==
    /\ aqi_pc = "looked_up"
    /\ lookup_table = "pm25"
    /\ concentration = 1792
    /\ pollutant_aqi = Some(632)

----------------------------------------------------------------------------
(* The recommendation score against its reference formula, under SpecCalc *)

\* the reference formula before rounding, in 1/1000 point: d in 1/1000 year,
\* c and a in 1/10 point
ReferenceScore(c, d, a) ==
    LET life_part == IF d > 0 THEN (IF d * 10 <= 30000 THEN d * 10 ELSE 30000)
                     ELSE (IF d * 10 >= -30000 THEN d * 10 ELSE -30000)
        cost_part == IF c < 0 THEN (IF (-c) * 30 <= 20000 THEN (-c) * 30 ELSE 20000)
                     ELSE -(IF c * 20 <= 25000 THEN c * 20 ELSE 25000)
        air_part == IF a < 0 THEN (IF (-a) * 15 <= 25000 THEN (-a) * 15 ELSE 25000)
                    ELSE -(IF a * 15 <= 20000 THEN a * 15 ELSE 20000)
        total == 50000 + life_part + cost_part + air_part
    IN  IF total < 0 THEN 0 ELSE IF total > 100000 THEN 100000 ELSE total

\* C23: _calculate_recommendation_score equals the reference formula (start
\* at 50, the capped life, cost and air terms added, clamped to [0, 100] and
\* rounded to one decimal); with all three deltas zero it is exactly 50.
C23_ScoreEqualsReference ==
    calc_pc = "scored" =>
        /\ recommendation_score =
              Some(RoundHE(ReferenceScore(cost_delta, life_exp_delta, aqi_delta), 100))
        /\ (cost_delta = 0 /\ life_exp_delta = 0 /\ aqi_delta = 0) =>
              recommendation_score = Some(500)

\* C23 witness: the three deltas zero were scored exactly 50.
C23_Witness ==
    /\ calc_pc = "scored"
    /\ cost_delta = 0
    /\ life_exp_delta = 0
    /\ aqi_delta = 0
    /\ recommendation_score = Some(500)

----------------------------------------------------------------------------
(* The AQI-to-PM2.5 estimate against the PM2.5 table, under SpecEstimate *)

\* C24: for every standardized AQI a from 0 to 500, looking up
\* _aqi_to_pm25_estimate(a) in the PM2.5 breakpoint table gives back an index
\* within one point of a.
C24_EstimateInvertsPm25Table ==
    estimate_pc = "estimated" =>
        /\ estimate_index # None
        /\ Abs(Val(estimate_index) - estimate_aqi) <= 10

----------------------------------------------------------------------------
(* The trade-off message of a comparison, under SpecCalc *)

\* C25 as stated: the trade_offs of every comparison hold exactly one of the
\* four fixed messages.
C25_ExactlyOneTradeOffMessage ==
    (calc_pc = "compared" /\ comparison.result # None) =>
        LET trade_offs == Val(comparison.result).analysis_details.trade_offs
        IN  Len(trade_offs) = 1 /\ trade_offs[1] \in TradeOffMessages

\* C25: the trade_offs of a comparison hold the one message selected by the
\* signs of cost_delta and of the health-adjusted life-expectancy delta when
\* both are non-zero, and no message when either delta is zero.
C25_TradeOffMessageBySigns ==
    (calc_pc = "compared" /\ comparison.result # None) =>
        LET r == Val(comparison.result)
            c == r.cost_delta
            d == r.health_adjusted_life_exp_delta
            trade_offs == r.analysis_details.trade_offs
        IN  /\ (c > 0 /\ d > 0) => trade_offs = <<HigherCostsBetterHealth>>
            /\ (c < 0 /\ d < 0) => trade_offs = <<LowerCostsHealthRisks>>
            /\ (c > 0 /\ d < 0) => trade_offs = <<HigherCostsWorseHealth>>
            /\ (c < 0 /\ d > 0) => trade_offs = <<LowerCostsBetterHealth>>
            /\ (c = 0 \/ d = 0) => trade_offs = <<>>

\* C25 witness: a comparison with a cost increase and a health gain carries
\* the one message for that combination.
C25_Witness ==
    /\ calc_pc = "compared"
    /\ comparison.result # None
    /\ Val(comparison.result).cost_delta > 0
    /\ Val(comparison.result).health_adjusted_life_exp_delta > 0
    /\ Val(comparison.result).analysis_details.trade_offs = <<HigherCostsBetterHealth>>

----------------------------------------------------------------------------
(* Independence of concurrent requests, under SpecConcurrent *)

\* C26: under any interleaving of several calculate_comparison calls over
\* unchanged stored records, each finished call holds the result the same
\* call gives when run alone, and no step of a call changes the stored
\* records or the keys another call works on.
C26_ConcurrentRequestsIndependent ==
    /\ [](\A t \in Requests :
            request_pc[t] = "done" =>
                response[t] = calculate_comparison(view_rows, TRUE, TRUE,
                                                   request_keys[t][1], request_keys[t][2]))
    /\ [][view_rows' = view_rows /\ request_keys' = request_keys]_vars

\* C26 witness: two requests for opposite directions of the same pair both
\* finished, each with its own result.
C26_Witness ==
    /\ NumRequests >= 2
    /\ request_keys[1] = <<"A", "B">>
    /\ request_keys[2] = <<"B", "A">>
    /\ request_pc[1] = "done"
    /\ request_pc[2] = "done"
    /\ response[1].result # None
    /\ response[2].result # None
    /\ response[1] # response[2]

----------------------------------------------------------------------------
(* Monotonicity, under SpecPairs *)

\* C27: for the china / cn, india and eu / european standards,
\* normalize_existing_aqi is non-decreasing in the input AQI: of two inputs
\* x <= y of the same standard, the value of x is not greater than that of y.
C27_ConversionsNonDecreasing ==
    (/\ pair_pc = "both"
     /\ pair_call = "normalize_existing_aqi"
     /\ first_args[2] \in ForeignStandardSpellings) =>
        Val(first_result) <= Val(second_result)

\* C28: in the primary path (both PM2.5 concentrations positive) with the
\* destination record fixed, the health-adjusted life expectancy delta is
\* non-decreasing in the origin's PM2.5 concentration.
C28_HealthDeltaNonDecreasingInOriginPm25 ==
    (/\ pair_pc = "both"
     /\ pair_call = "_calculate_health_adjusted_life_expectancy_delta"
     /\ first_args[1].pm25_concentration > 0
     /\ second_args[1].pm25_concentration > 0
     /\ first_args[2].pm25_concentration > 0
     /\ first_args[2] = second_args[2]
     /\ first_args[1].pm25_concentration <= second_args[1].pm25_concentration) =>
        Val(first_result) <= Val(second_result)

\* C29: the recommendation score is monotone in each factor with the other
\* two held fixed: it never decreases when the life expectancy delta grows,
\* and never increases when cost_delta or aqi_delta grows, also across 0.
C29_ScoreMonotoneInEachFactor ==
    (pair_pc = "both" /\ pair_call = "_calculate_recommendation_score") =>
        LET cost1 == first_args[1]   cost2 == second_args[1]
            life1 == first_args[2]   life2 == second_args[2]
            aqi1 == first_args[3]    aqi2 == second_args[3]
        IN  /\ (cost1 = cost2 /\ aqi1 = aqi2 /\ life1 <= life2) =>
                    Val(first_result) <= Val(second_result)
            /\ (life1 = life2 /\ aqi1 = aqi2 /\ cost1 <= cost2) =>
                    Val(first_result) >= Val(second_result)
            /\ (life1 = life2 /\ cost1 = cost2 /\ aqi1 <= aqi2) =>
                    Val(first_result) >= Val(second_result)

\* both calls made, the second with an AQI delta on the other side of 0 and a
\* strictly lower score
C29_Witness ==
    /\ pair_pc = "both"
    /\ pair_call = "_calculate_recommendation_score"
    /\ first_args[1] = second_args[1]
    /\ first_args[2] = second_args[2]
    /\ first_args[3] < 0
    /\ second_args[3] > 0
    /\ Val(first_result) > Val(second_result)

----------------------------------------------------------------------------
(* The refresh of a stored row, under SpecEtl *)

\* the row of cities_analysis has the columns of the refreshed table
HasRefreshedColumns(row) ==
    IF etl_table = "air_quality"
    THEN row.standardized_aqi # None /\ row.pm25_concentration # None
    ELSE row.cost_of_living_index # None

\* C30: refreshing a city's air quality or cost of living row is all or
\* nothing: once the insert function has returned, a city that had a row has
\* the new row or, if the insert failed, its previous row, never no row; and
\* a concurrent _get_city_data never gets the city without its row.
C30_RefreshAllOrNothing ==
    previous_row # None =>
        /\ etl_pc = "returned" =>
                /\ TableRow # None
                /\ insert_outcome = "ok" => TableRow = new_row
                /\ insert_outcome = "failed" => TableRow = previous_row
        /\ reader_pc = "read" => HasRefreshedColumns(Val(observed_row))

====
